---- MODULE Spec2Model ----
(***************************************************************************)
(* A model of the nntp-indexer core.                                       *)
(*                                                                         *)
(*   Spec        fetch_headers_chunked (nntp_lib/fetch.py): the coordinator *)
(*               and the ThreadPoolExecutor's worker tasks, interleaved at  *)
(*               the remote-call boundaries.                                *)
(*   SpecFair    the same, with the fairness the thread pool gives.         *)
(*   SpecChunks  the planning prefix of fetch_headers_chunked (the range    *)
(*               and the chunk list) over a wide set of arguments.          *)
(*   SpecRange   get_article_range (scripts/create_db.py) with              *)
(*               find_article_range_by_dates (scripts/find_date_range.py).  *)
(*   SpecSearch  binary_search_date_boundary (scripts/find_date_range.py), *)
(*               one loop iteration per step.                              *)
(*   SpecSearchRuns  the same, with the call running on.                   *)
(*   SpecNorm    fetch_rows_xover (nntp_lib/fetch.py) from the xover reply *)
(*               on: the key map and row_from_overview.                    *)
(*   SpecNzb     group_rows_auto and build_nzb_xml (nntp_lib/nzb.py).      *)
(*   SpecDb      ensure_db and upsert_headers (nntp_lib/db.py).            *)
(***************************************************************************)
EXTENDS Integers, Sequences, FiniteSets, TLC

\* ------------------------------------------------------------------ bounds
\* Highest article number a modelled server holds.
MaxArt == 3
\* Largest max_workers a modelled configuration sets.
MaxWorkers == 2
\* Highest article number of the servers the planning specification draws.
MaxPlanArt == 4
\* Highest article number of the remote group the date search probes.
MaxSeq == 3
\* Most overviews one range query of the normalizing specification returns.
MaxOverviews == 2
\* Most rows of a batch handed to the grouping.
MaxRows == 3
\* Most rows of one upsert_headers call.
MaxBatch == 2
\* Most rows the modelled table holds.
MaxStored == 4

VARIABLES
    \* --- fetch_headers_chunked
    config,      \* the call's arguments and the [servers] max_workers option
    server,      \* the remote group: the select-group reply and the articles held
    pc,          \* the coordinating thread's position
    plan,        \* local_min, local_max, want, chunks (fetch.py:112-136)
    conns,       \* every connection object created so far, by handle
    task,        \* one entry per submitted chunk: the future and its worker's locals
    collected,   \* the futures as_completed has yielded so far, in that order
    all_rows,    \* the coordinator's merged list
    result,      \* what the call returned
    \* --- create_db.py: __main__ and get_article_range
    main,        \* __main__'s db_max and the remote group it asked for its range
    filters,     \* the [filters] section of the configuration
    remote,      \* the remote group as the date probes see it
    fallback,    \* the (local_min, local_max) the caller passed in
    rpc,         \* position of the get_article_range call
    resolved,    \* its outcome: return or raise, the range, whether the search ran
                 \* and found a range, and the article numbers it probed
    \* --- binary_search_date_boundary
    bs,          \* the call's frame: its arguments, low, high, result, the
                 \* article numbers probed so far, and its position
    \* --- fetch_rows_xover, from the xover reply on
    xover_reply, \* the (artnum, overview) pairs xover returned
    norm,        \* the call's position and outcome: raised, or the rows
    \* --- create_nzb_from_db: group_rows_auto, then build_nzb_xml
    db_rows,     \* the rows read from the database
    require_complete_sets,
    npc,         \* the position of create_nzb_from_db
    candidates,  \* the leftmost and the rightmost grouping of the rows
    selected,    \* what group_rows_auto returned, and from which strategy
    manifest,    \* the file entries of the document build_nzb_xml built
    \* --- db.py: ensure_db and upsert_headers
    dpc,         \* the connection: connected, then ready once ensure_db ran
    articles,    \* the rows of table articles, in rowid order
    applied      \* the group and rows of the last upsert_headers call

fetchVars == <<config, server, pc, plan, conns, task, collected, all_rows, result>>
rangeVars == <<main, filters, remote, fallback, rpc, resolved>>
searchVars == <<bs>>
normVars == <<xover_reply, norm>>
nzbVars == <<db_rows, require_complete_sets, npc, candidates, selected, manifest>>
dbVars == <<dpc, articles, applied>>
vars == <<fetchVars, rangeVars, searchVars, normVars, nzbVars, dbVars>>
notFetchVars == <<rangeVars, searchVars, normVars, nzbVars, dbVars>>
notRangeVars == <<fetchVars, searchVars, normVars, nzbVars, dbVars>>
notSearchVars == <<fetchVars, rangeVars, normVars, nzbVars, dbVars>>
notNormVars == <<fetchVars, rangeVars, searchVars, nzbVars, dbVars>>
notNzbVars == <<fetchVars, rangeVars, searchVars, normVars, dbVars>>
notDbVars == <<fetchVars, rangeVars, searchVars, normVars, nzbVars>>

Min(a, b) == IF a <= b THEN a ELSE b
Max(a, b) == IF a >= b THEN a ELSE b

RECURSIVE SeqToSet(_)
SeqToSet(s) == IF s = <<>> THEN {} ELSE {Head(s)} \cup SeqToSet(Tail(s))

\* ------------------------------------------------------- the remote server
\* nntplib's group() reply: (resp, count, first, last, name).
GroupReply(srv) == <<"211", srv.count, srv.first, srv.last, "group">>

\* The articles a server holds are ascending article numbers, gaps allowed.
MkServer(first, last, present) ==
    [count |-> Cardinality(present), first |-> first, last |-> last,
     present |-> present]

\* ------------------------------------------------------ Python values
\* A value of a raw field map or of a row: None, a str (its characters) or an
\* int.
PyNone == [kind |-> "none", text |-> <<>>, n |-> 0]
StrVal(text) == [kind |-> "str", text |-> text, n |-> 0]
IntVal(n) == [kind |-> "int", text |-> <<>>, n |-> n]

\* bool(v) is False: None, "", 0.
Falsy(v) ==
    \/ v.kind = "none"
    \/ (v.kind = "str" /\ v.text = <<>>)
    \/ (v.kind = "int" /\ v.n = 0)

Digits == <<"0", "1", "2", "3", "4", "5", "6", "7", "8", "9">>
IsDigit(c) == \E d \in DOMAIN Digits : Digits[d] = c
DigitValue(c) == (CHOOSE d \in DOMAIN Digits : Digits[d] = c) - 1

\* str(n) for n >= 0.
RECURSIVE IntText(_)
IntText(n) ==
    IF n < 10 THEN <<Digits[n + 1]>>
    ELSE Append(IntText(n \div 10), Digits[(n % 10) + 1])

RECURSIVE DigitsValue(_, _)
DigitsValue(text, acc) ==
    IF text = <<>> THEN acc
    ELSE DigitsValue(Tail(text), acc * 10 + DigitValue(Head(text)))

\* int(v): a text of decimal digits parses, other text raises ValueError, an
\* int is itself, None raises TypeError.
PyInt(v) ==
    IF v.kind = "int" THEN [raised |-> FALSE, n |-> v.n]
    ELSE IF v.kind = "str" /\ v.text # <<>> /\ \A i \in DOMAIN v.text : IsDigit(v.text[i])
    THEN [raised |-> FALSE, n |-> DigitsValue(v.text, 0)]
    ELSE [raised |-> TRUE, n |-> 0]

\* A code unit that UTF-8 cannot encode (a lone surrogate).
Surrogate == "surrogate"

RECURSIVE Encodable(_)
Encodable(text) ==
    IF text = <<>> THEN <<>>
    ELSE (IF Head(text) = Surrogate THEN <<>> ELSE <<Head(text)>>)
         \o Encodable(Tail(text))

\* utils.clean_text: s.encode("utf-8", "ignore").decode("utf-8")
clean_text(v) == IF v.kind # "str" THEN v ELSE StrVal(Encodable(v.text))

\* The one date text of the model that parsedate_to_datetime accepts, and its
\* isoformat().
ValidDate == <<"Mon, 01 Jan 2024 00:00:00 +0000">>
IsoDate == <<"2024-01-01T00:00:00+00:00">>

\* utils.to_iso: None for a falsy argument and for everything
\* parsedate_to_datetime raises on (unparsable text, a non-string).
to_iso(dt_str) ==
    IF Falsy(dt_str) THEN PyNone
    ELSE IF dt_str.kind = "str" /\ dt_str.text = ValidDate THEN StrVal(IsoDate)
    ELSE PyNone

\* The keys of nntplib's overview dictionaries.
OverviewKeys ==
    {"subject", "from", "date", "message-id", "references", ":bytes", ":lines",
     "xref"}

\* field_names (fetch.py:65)
FieldNames ==
    {"message-id", "subject", "from", "date", "references", "bytes", "lines",
     "xref"}

\* field_lower in key_lower, over the keys above.
KeyContains(field_name, key) ==
    \/ key = field_name
    \/ (field_name = "bytes" /\ key = ":bytes")
    \/ (field_name = "lines" /\ key = ":lines")

\* The raw overview of article a of a well-formed server: every article has
\* the same keys, all values are text.
Overview(a) ==
    [key \in OverviewKeys |->
        CASE key = "message-id" -> StrVal(<<"<", "m">> \o IntText(a) \o <<">">>)
          [] key = "subject" -> StrVal(<<"s">> \o IntText(a))
          [] key = "from" -> StrVal(<<"p">>)
          [] key = "date" -> StrVal(ValidDate)
          [] key = "references" -> StrVal(<<>>)
          [] key = ":bytes" -> StrVal(IntText(100 * a))
          [] key = ":lines" -> StrVal(IntText(a))
          [] OTHER -> StrVal(<<"x">>)]

\* xover(start, end): the (artnum, overview) pairs of the articles held in
\* [start, end], ascending.
RECURSIVE Xover(_, _, _)
Xover(srv, start, end) ==
    IF start > end THEN <<>>
    ELSE (IF start \in srv.present THEN << <<start, Overview(start)>> >> ELSE <<>>)
         \o Xover(srv, start + 1, end)

\* ------------------------------------------------------------ normalizing
\* Something that is not a dict, standing where an overview should.
NotADict == [key \in {"not a dict"} |-> PyNone]
IsDict(ov) == ov # NotADict

\* key_map: for each field name the key of the first overview that contains
\* it; no entry when none does (fetch.py:62-73).
BuildKeyMap(first_ov) ==
    [field_name \in {f \in FieldNames :
                        \E key \in DOMAIN first_ov : KeyContains(f, key)} |->
        CHOOSE key \in DOMAIN first_ov : KeyContains(field_name, key)]

\* get_field of row_from_overview (fetch.py:29-36).
get_field(ov, key_map, field_name) ==
    IF field_name \in DOMAIN key_map /\ key_map[field_name] \in DOMAIN ov
    THEN clean_text(ov[key_map[field_name]])
    ELSE PyNone

\* int(get_field(...) or 0)
IntOr0(v) == IF Falsy(v) THEN [raised |-> FALSE, n |-> 0] ELSE PyInt(v)

\* x or ""
OrEmpty(v) == IF Falsy(v) THEN StrVal(<<>>) ELSE v

\* row_from_overview: the row, or raised when an int() of it raises.
row_from_overview(artnum, ov, key_map) ==
    LET bytes == IntOr0(get_field(ov, key_map, "bytes"))
        lines == IntOr0(get_field(ov, key_map, "lines"))
    IN  [raised |-> bytes.raised \/ lines.raised,
         row |-> [message_id |-> get_field(ov, key_map, "message-id"),
                  artnum |-> artnum,
                  subject |-> OrEmpty(get_field(ov, key_map, "subject")),
                  from_addr |-> OrEmpty(get_field(ov, key_map, "from")),
                  date_utc |-> to_iso(get_field(ov, key_map, "date")),
                  refs |-> get_field(ov, key_map, "references"),
                  bytes |-> bytes.n,
                  lines |-> lines.n,
                  xref |-> get_field(ov, key_map, "xref")]]

\* The loop of fetch.py:76-79: an entry that is no dict is skipped; a row that
\* raises ends the loop and the call.
RECURSIVE RowsOf(_, _, _)
RowsOf(overviews, key_map, rows) ==
    IF overviews = <<>> THEN [raised |-> FALSE, rows |-> rows]
    ELSE LET artnum == Head(overviews)[1]
             ov == Head(overviews)[2]
         IN  IF ~IsDict(ov) THEN RowsOf(Tail(overviews), key_map, rows)
             ELSE LET made == row_from_overview(artnum, ov, key_map)
                  IN  IF made.raised THEN [raised |-> TRUE, rows |-> <<>>]
                      ELSE RowsOf(Tail(overviews), key_map, Append(rows, made.row))

\* fetch_rows_xover from line 59 on: what it does with the overviews xover
\* returned. first_ov.keys() raises when the first entry is no dict.
RowsFromOverviews(overviews) ==
    IF overviews = <<>> THEN [raised |-> FALSE, rows |-> <<>>]
    ELSE IF ~IsDict(overviews[1][2]) THEN [raised |-> TRUE, rows |-> <<>>]
    ELSE RowsOf(overviews, BuildKeyMap(overviews[1][2]), <<>>)

\* The rows fetch_rows_xover makes of the articles of a well-formed server,
\* by article number: the key map is the same whichever overview comes first,
\* and no row raises.
RowOfArticle ==
    [a \in 1..(MaxArt + MaxPlanArt) |->
        row_from_overview(a, Overview(a), BuildKeyMap(Overview(a))).row]

RECURSIVE RowsInRange(_, _, _)
RowsInRange(srv, start, end) ==
    IF start > end THEN <<>>
    ELSE (IF start \in srv.present THEN <<RowOfArticle[start]>> ELSE <<>>)
         \o RowsInRange(srv, start + 1, end)

\* fetch_rows_xover without its failures: the rows of one range query against
\* a well-formed server, RowsFromOverviews(Xover(srv, start, end)).rows.
fetch_rows_xover(srv, start, end) == RowsInRange(srv, start, end)

\* ------------------------------------------------------------ the planning
\* temp_client.group(group)[1:3]: a Python slice of the reply, elements 1 and 2.
GroupSlice(reply) == SubSeq(reply, 2, 3)
nntp_max(srv) == GroupSlice(GroupReply(srv))[1]
nntp_min(srv) == GroupSlice(GroupReply(srv))[2]

\* `x or y` on integers.
PyOr(x, y) == IF x # 0 THEN x ELSE y

LocalMin(cfg, srv) == PyOr(cfg.back_filled_up_to, nntp_min(srv))
LocalMax(cfg, srv) == PyOr(cfg.start, nntp_max(srv))

Want(limit, total_articles) ==
    IF limit <= 0 THEN total_articles ELSE Min(limit, total_articles)

\* A chunk's end without the limit's truncation.
ChunkEndUntruncated(current, lmin, lmax, want, chunk_size) ==
    Min(lmax, current + chunk_size - 1)

\* The end of the chunk that starts at current (fetch.py:128-133).
ChunkEnd(current, lmin, lmax, want, chunk_size) ==
    LET chunk_end == Min(lmax, current + chunk_size - 1)
        remaining == want - (current - lmin)
    IN  IF (chunk_end - current + 1) > remaining
        THEN current + remaining - 1
        ELSE chunk_end

\* The while loop of fetch.py:126-136.
RECURSIVE ChunkLoop(_, _, _, _, _, _)
ChunkLoop(current, chunks, lmin, lmax, want, chunk_size) ==
    IF current <= lmax /\ (current - lmin) < want
    THEN LET chunk_end == ChunkEnd(current, lmin, lmax, want, chunk_size)
         IN  ChunkLoop(chunk_end + 1, Append(chunks, <<current, chunk_end>>),
                       lmin, lmax, want, chunk_size)
    ELSE chunks

BuildPlan(cfg, srv) ==
    LET lmin == LocalMin(cfg, srv)
        lmax == LocalMax(cfg, srv)
        want == Want(cfg.limit, lmax - lmin + 1)
    IN  [local_min |-> lmin, local_max |-> lmax, want |-> want,
         chunks |-> ChunkLoop(lmin, <<>>, lmin, lmax, want, cfg.chunk_size)]

NoPlan == [local_min |-> 0, local_max |-> 0, want |-> 0, chunks |-> <<>>]

\* ------------------------------------------------------------ the sorting
\* list.sort(key=artnum): a stable sort, here by insertion.
RECURSIVE InsertRow(_, _)
InsertRow(r, sorted) ==
    IF sorted = <<>> THEN <<r>>
    ELSE IF r.artnum < Head(sorted).artnum THEN <<r>> \o sorted
    ELSE <<Head(sorted)>> \o InsertRow(r, Tail(sorted))

RECURSIVE SortRows(_)
SortRows(rows) ==
    IF rows = <<>> THEN <<>>
    ELSE InsertRow(rows[Len(rows)], SortRows(SubSeq(rows, 1, Len(rows) - 1)))

Unsorted(rows) == rows

\* all_rows.sort(key=lambda x: x['artnum'])
SortByArtnum(rows) == SortRows(rows)

\* ------------------------------------------------------------ connections
\* The owner of the temporary connection: the coordinating thread, which is no
\* chunk's task (tasks are numbered from 1).
TempOwner == 0

\* A client cached at its first creation and handed to every later caller.
SharedHandle == IF conns = <<>> THEN Len(conns) + 1 ELSE Min(1, Len(conns))

\* get_nntp_client builds a new NNTP_SSL object on every call.
NewHandle == Len(conns) + 1

\* The connections after get_nntp_client returned handle h to owner.
Connected(h, owner) ==
    IF h \in DOMAIN conns
    THEN [conns EXCEPT ![h].open = TRUE]
    ELSE Append(conns, [owner |-> owner, open |-> TRUE, users |-> {}, xovers |-> 0])

Tasks == DOMAIN task

Running == {t \in Tasks : task[t].st \in {"opened", "hung", "queried"}}
Hung == {t \in Tasks : task[t].st = "hung"}
Finished == {t \in Tasks : task[t].st = "done"}

PoolUnbounded == TRUE

\* ThreadPoolExecutor(max_workers): a work item starts only on a free thread.
WorkerAvailable == Cardinality(Running) < config.max_workers

\* The work queue is FIFO: the next item is the oldest pending one.
NextPending(t) ==
    /\ task[t].st = "pending"
    /\ \A u \in Tasks : u < t => task[u].st # "pending"


\* ------------------------------------------------ fetch_headers_chunked
ChunkOf(t) == plan.chunks[t]

\* st: the work item's position; client, rows: the worker's locals; fetched:
\* fetch_rows_xover returned; exc: the future holds an exception.
NewTask == [st |-> "pending", client |-> 0, rows |-> <<>>, fetched |-> FALSE,
            exc |-> FALSE]

\* The temporary connection of fetch.py:107.
TempHandle == CHOOSE h \in DOMAIN conns : conns[h].owner = TempOwner

\* temp_client = get_nntp_client(config)
TempClientOpen ==
    /\ pc = "call"
    /\ conns' = Connected(NewHandle, TempOwner)
    /\ pc' = "temp"
    /\ UNCHANGED notFetchVars
    /\ UNCHANGED <<config, server, plan, task, collected, all_rows, result>>

\* get_nntp_client raises (connect, TLS or login failure): nothing catches it.
TempClientFail ==
    /\ pc = "call"
    /\ pc' = "raised"
    /\ UNCHANGED notFetchVars
    /\ UNCHANGED <<config, server, plan, conns, task, collected, all_rows, result>>

\* temp_client.group(group) raises: temp_client.quit() is never reached.
TempGroupFail ==
    /\ pc = "temp"
    /\ conns' = [conns EXCEPT ![TempHandle].users = @ \cup {TempOwner}]
    /\ pc' = "raised"
    /\ UNCHANGED notFetchVars
    /\ UNCHANGED <<config, server, plan, task, collected, all_rows, result>>

\* fetch.py:108-139: the group reply, quit, the range, want and the chunk list.
PlanChunks ==
    /\ pc = "temp"
    /\ conns' = [conns EXCEPT ![TempHandle].users = @ \cup {TempOwner},
                              ![TempHandle].open = FALSE]
    /\ plan' = BuildPlan(config, server)
    /\ pc' = "planned"
    /\ UNCHANGED notFetchVars
    /\ UNCHANGED <<config, server, task, collected, all_rows, result>>

\* ThreadPoolExecutor(max_workers=0) raises ValueError.
ExecutorRejects ==
    /\ pc = "planned"
    /\ config.max_workers <= 0
    /\ pc' = "raised"
    /\ UNCHANGED notFetchVars
    /\ UNCHANGED <<config, server, plan, conns, task, collected, all_rows, result>>

ExecutorCreated ==
    /\ pc = "planned"
    /\ config.max_workers > 0
    /\ pc' = IF plan.chunks = <<>> THEN "collect" ELSE "submit"
    /\ UNCHANGED notFetchVars
    /\ UNCHANGED <<config, server, plan, conns, task, collected, all_rows, result>>

\* executor.submit(fetch_chunk_with_client, chunk_start, chunk_end), in chunk order.
Submit ==
    /\ pc = "submit"
    /\ task' = Append(task, NewTask)
    /\ pc' = IF Len(task') = Len(plan.chunks) THEN "collect" ELSE "submit"
    /\ UNCHANGED notFetchVars
    /\ UNCHANGED <<config, server, plan, conns, collected, all_rows, result>>

ExecutorAlive == pc \in {"submit", "collect"}

\* A pool thread takes the chunk's work item; client = get_nntp_client(config).
StartOk(t) ==
    /\ ExecutorAlive
    /\ NextPending(t)
    /\ WorkerAvailable
    /\ LET h == NewHandle
       IN  /\ conns' = Connected(h, t)
           /\ task' = [task EXCEPT ![t].st = "opened", ![t].client = h]
    /\ UNCHANGED notFetchVars
    /\ UNCHANGED <<config, server, pc, plan, collected, all_rows, result>>

\* get_nntp_client raises in the worker, before the try block: no client exists.
StartFail(t) ==
    /\ ExecutorAlive
    /\ NextPending(t)
    /\ WorkerAvailable
    /\ task' = [task EXCEPT ![t].st = "done", ![t].exc = TRUE]
    /\ UNCHANGED notFetchVars
    /\ UNCHANGED <<config, server, pc, plan, conns, collected, all_rows, result>>

Used(t) == [conns EXCEPT ![task[t].client].users = @ \cup {t},
                         ![task[t].client].xovers = @ + 1]

\* A worker that extends the coordinator's list itself.
WorkerExtendsShared(t) ==
    all_rows \o fetch_rows_xover(server, ChunkOf(t)[1], ChunkOf(t)[2])

\* The worker appends to the rows list local to fetch_rows_xover, never to
\* all_rows.
WorkerExtends(t) == all_rows

\* fetch_rows_xover returns the chunk's rows, built in the worker's own list.
XoverOk(t) ==
    /\ task[t].st = "opened"
    /\ conns' = Used(t)
    /\ task' = [task EXCEPT ![t].st = "queried", ![t].fetched = TRUE,
                            ![t].rows = fetch_rows_xover(server, ChunkOf(t)[1], ChunkOf(t)[2])]
    /\ all_rows' = WorkerExtends(t)
    /\ UNCHANGED notFetchVars
    /\ UNCHANGED <<config, server, pc, plan, collected, result>>

\* Every chunk fetched holds exactly what the normalizing loop makes of the
\* xover reply for its range, none of it raising.
FetchedAsNormalized ==
    \A t \in DOMAIN task :
        task[t].fetched =>
            LET made == RowsFromOverviews(Xover(server, ChunkOf(t)[1], ChunkOf(t)[2]))
            IN  ~made.raised /\ task[t].rows = made.rows

\* group(), xover() or row_from_overview raises inside fetch_rows_xover.
XoverFail(t) ==
    /\ task[t].st = "opened"
    /\ conns' = Used(t)
    /\ task' = [task EXCEPT ![t].st = "queried", ![t].exc = TRUE]
    /\ UNCHANGED notFetchVars
    /\ UNCHANGED <<config, server, pc, plan, collected, all_rows, result>>

\* The range query never answers.
XoverHang(t) ==
    /\ task[t].st = "opened"
    /\ conns' = [conns EXCEPT ![task[t].client].users = @ \cup {t}]
    /\ task' = [task EXCEPT ![t].st = "hung"]
    /\ UNCHANGED notFetchVars
    /\ UNCHANGED <<config, server, pc, plan, collected, all_rows, result>>

\* A finally that runs only when the try block returned.
QuitOnlyOnSuccess(t) ==
    IF task[t].exc THEN conns ELSE [conns EXCEPT ![task[t].client].open = FALSE]

\* finally: client.quit(); nntplib's quit closes the socket also when QUIT fails.
QuitClient(t) == [conns EXCEPT ![task[t].client].open = FALSE]

QuitOk(t) ==
    /\ task[t].st = "queried"
    /\ conns' = QuitClient(t)
    /\ task' = [task EXCEPT ![t].st = "done"]
    /\ UNCHANGED notFetchVars
    /\ UNCHANGED <<config, server, pc, plan, collected, all_rows, result>>

\* client.quit() raises: the exception replaces the try block's outcome.
QuitFail(t) ==
    /\ task[t].st = "queried"
    /\ conns' = QuitClient(t)
    /\ task' = [task EXCEPT ![t].st = "done", ![t].exc = TRUE]
    /\ UNCHANGED notFetchVars
    /\ UNCHANGED <<config, server, pc, plan, collected, all_rows, result>>

\* future.result() of a failed future, with no except clause around it.
ResultPropagates(t) == IF task[t].exc THEN "raised" ELSE "collect"

\* try: future.result() ... except Exception: the loop goes on.
ResultCaught(t) == "collect"

\* One round of the as_completed loop (fetch.py:159-166).
Collect(t) ==
    /\ pc = "collect"
    /\ t \in Finished \ SeqToSet(collected)
    /\ collected' = Append(collected, t)
    /\ all_rows' = IF task[t].exc THEN all_rows ELSE all_rows \o task[t].rows
    /\ pc' = ResultCaught(t)
    /\ UNCHANGED notFetchVars
    /\ UNCHANGED <<config, server, plan, conns, task, result>>

ReturnsAtOnce == TRUE

\* as_completed has yielded every future; the with block's exit joins the pool.
AllCollected == SeqToSet(collected) = 1..Len(plan.chunks)

\* fetch.py:168-171
SortAndReturn ==
    /\ pc = "collect"
    /\ AllCollected
    /\ all_rows' = SortByArtnum(all_rows)
    /\ result' = all_rows'
    /\ pc' = "returned"
    /\ UNCHANGED notFetchVars
    /\ UNCHANGED <<config, server, plan, conns, task, collected>>

Next ==
    \/ TempClientOpen
    \/ TempClientFail
    \/ TempGroupFail
    \/ PlanChunks
    \/ ExecutorRejects
    \/ ExecutorCreated
    \/ Submit
    \/ \E t \in Tasks : StartOk(t)
    \/ \E t \in Tasks : StartFail(t)
    \/ \E t \in Tasks : XoverOk(t)
    \/ \E t \in Tasks : XoverFail(t)
    \/ \E t \in Tasks : XoverHang(t)
    \/ \E t \in Tasks : QuitOk(t)
    \/ \E t \in Tasks : QuitFail(t)
    \/ \E t \in Tasks : Collect(t)
    \/ SortAndReturn

\* The servers of the fetch: articles 1..MaxArt, whole or with a gap at 2.
FetchServers ==
    {MkServer(1, MaxArt, (1..MaxArt) \ gap) : gap \in {{}, {2}}}

\* The calls: the upper bound unset, the lowest or the highest article; the
\* lower bound unset or the highest article (an inverted range under start = 1).
FetchConfigs ==
    [start : {0, 1, MaxArt}, back_filled_up_to : {0, MaxArt},
     limit : {0, 2}, chunk_size : {1, 2}, max_workers : 0..MaxWorkers]

IdleFetch ==
    /\ config = [start |-> 0, back_filled_up_to |-> 0, limit |-> 0,
                 chunk_size |-> 1, max_workers |-> 1]
    /\ server = MkServer(1, 1, {1})
    /\ pc = "idle"
    /\ plan = NoPlan
    /\ conns = <<>>
    /\ task = <<>>
    /\ collected = <<>>
    /\ all_rows = <<>>
    /\ result = <<>>

IdleRange ==
    /\ main = [db_max |-> 0, server |-> MkServer(1, 1, {1})]
    /\ filters = [local_min |-> <<>>, local_max |-> <<>>, min_days |-> <<>>,
                  max_days |-> <<>>]
    /\ remote = [first |-> 1, last |-> 1, age |-> <<0>>, miss |-> {}]
    /\ fallback = <<1, 1>>
    /\ rpc = "idle"
    /\ resolved = [kind |-> "none", range |-> <<>>, search |-> "unused",
                   probes |-> <<>>]

IdleSearch ==
    bs = [pc |-> "idle", rem |-> [first |-> 1, last |-> 1, age |-> <<0>>, miss |-> {}],
          target_days |-> 0, find_lower |-> TRUE, low |-> 1, high |-> 1,
          result |-> 0, probes |-> <<>>]

IdleNorm ==
    /\ xover_reply = <<>>
    /\ norm = [pc |-> "idle", raised |-> FALSE, rows |-> <<>>]

NoGrouping == [groups |-> <<>>, singles |-> <<>>]

IdleNzb ==
    /\ db_rows = <<>>
    /\ require_complete_sets = FALSE
    /\ npc = "idle"
    /\ candidates = [left |-> NoGrouping, right |-> NoGrouping]
    /\ selected = [strategy |-> "none", groups |-> <<>>, singles |-> <<>>]
    /\ manifest = <<>>

NoCall == [group |-> "", rows |-> <<>>]

IdleDb ==
    /\ dpc = "idle"
    /\ articles = <<>>
    /\ applied = NoCall

\* Everything but one part of the program at rest.
IdleButFetch == IdleRange /\ IdleSearch /\ IdleNorm /\ IdleNzb /\ IdleDb
IdleButRange == IdleFetch /\ IdleSearch /\ IdleNorm /\ IdleNzb /\ IdleDb
IdleButSearch == IdleFetch /\ IdleRange /\ IdleNorm /\ IdleNzb /\ IdleDb
IdleButNorm == IdleFetch /\ IdleRange /\ IdleSearch /\ IdleNzb /\ IdleDb
IdleButNzb == IdleFetch /\ IdleRange /\ IdleSearch /\ IdleNorm /\ IdleDb
IdleButDb == IdleFetch /\ IdleRange /\ IdleSearch /\ IdleNorm /\ IdleNzb

InitFetch ==
    /\ config \in FetchConfigs
    /\ server \in FetchServers
    /\ pc = "call"
    /\ plan = NoPlan
    /\ conns = <<>>
    /\ task = <<>>
    /\ collected = <<>>
    /\ all_rows = <<>>
    /\ result = <<>>

Init == InitFetch /\ IdleButFetch

Spec == Init /\ [][Next]_vars

\* The calls of the fairness specification: the whole range of a server, cut
\* into chunks of one or two articles, for every pool size.
FairConfigs ==
    {c \in FetchConfigs : c.start = 0 /\ c.back_filled_up_to = 0 /\ c.limit = 0}

InitFair == Init /\ config \in FairConfigs

\* Runnable threads run: the pool's workers and the coordinator all make progress.
SpecFair == InitFair /\ [][Next]_vars /\ WF_vars(Next)


\* ------------------------------------------------- the planning, widely
\* Servers holding every article of first..last.
PlanServers ==
    {MkServer(first, last, first..last) :
        first \in 1..2, last \in 2..MaxPlanArt}

PlanConfigs ==
    [start : 0..MaxPlanArt, back_filled_up_to : 0..MaxPlanArt,
     limit : (-1)..(MaxPlanArt + 1), chunk_size : 1..MaxPlanArt,
     max_workers : {1}]

InitChunks ==
    /\ config \in PlanConfigs
    /\ server \in PlanServers
    /\ pc = "call"
    /\ plan = NoPlan
    /\ conns = <<>>
    /\ task = <<>>
    /\ collected = <<>>
    /\ all_rows = <<>>
    /\ result = <<>>
    /\ IdleButFetch

\* fetch_headers_chunked up to its chunk list (fetch.py:107-136).
NextChunks ==
    \/ TempClientOpen
    \/ TempClientFail
    \/ TempGroupFail
    \/ PlanChunks

SpecChunks == InitChunks /\ [][NextChunks]_vars

\* ---------------------------------------------------- find_date_range.py
NoDate == [found |-> FALSE, days_old |-> 0]

\* days_old(get_article_date(...)): None when the probe fails, the overview is
\* empty or carries no date; otherwise the article's age in days.
get_article_date(rem, artnum) ==
    IF artnum \in rem.miss
    THEN NoDate
    ELSE [found |-> TRUE, days_old |-> rem.age[artnum]]

\* The while loop of binary_search_date_boundary; probes lists the article
\* numbers probed, in order.
RECURSIVE SearchLoop(_, _, _, _, _, _, _)
SearchLoop(rem, low, high, found_so_far, target_days, find_lower, probes) ==
    IF low <= high
    THEN LET mid == (low + high) \div 2
             dt == get_article_date(rem, mid)
             seen == Append(probes, mid)
         IN  IF ~dt.found
             THEN IF find_lower
                  THEN SearchLoop(rem, low, mid - 1, found_so_far, target_days, find_lower, seen)
                  ELSE SearchLoop(rem, mid + 1, high, found_so_far, target_days, find_lower, seen)
             ELSE IF find_lower
                  THEN IF dt.days_old >= target_days
                       THEN SearchLoop(rem, mid + 1, high, mid, target_days, find_lower, seen)
                       ELSE SearchLoop(rem, low, mid - 1, found_so_far, target_days, find_lower, seen)
                  ELSE IF dt.days_old <= target_days
                       THEN SearchLoop(rem, low, mid - 1, mid, target_days, find_lower, seen)
                       ELSE SearchLoop(rem, mid + 1, high, found_so_far, target_days, find_lower, seen)
    ELSE [result |-> found_so_far, probes |-> probes]

binary_search_date_boundary(rem, low, high, target_days, find_lower) ==
    SearchLoop(rem, low, high, IF find_lower THEN low ELSE high,
               target_days, find_lower, <<>>)

\* find_article_range_by_dates: found is FALSE for a None return.
find_article_range_by_dates(rem, min_days, max_days) ==
    LET newest_date == get_article_date(rem, rem.last)
        oldest_date == get_article_date(rem, rem.first)
        lower == binary_search_date_boundary(rem, rem.first, rem.last, min_days, TRUE)
        upper == binary_search_date_boundary(rem, rem.first, rem.last, max_days, FALSE)
    IN  IF newest_date.found /\ newest_date.days_old > max_days
        THEN [found |-> FALSE, probes |-> <<rem.last>>]
        ELSE IF oldest_date.found /\ oldest_date.days_old < min_days
        THEN [found |-> FALSE, probes |-> <<rem.last, rem.first>>]
        ELSE [found |-> TRUE,
              lower_artnum |-> lower.result,
              upper_artnum |-> upper.result,
              lower_age |-> get_article_date(rem, lower.result),
              upper_age |-> get_article_date(rem, upper.result),
              probes |-> <<rem.last, rem.first>> \o lower.probes \o upper.probes
                         \o <<lower.result, upper.result>>]

\* The values the [filters] options take: unset, zero and two positive ones.
DayValues == 0..2
CfgSeqValues == 0..2

\* Article ages in days: younger than, inside and older than a window of 1..2.
AgeValues == 0..3

\* Remote groups of articles 1..MaxSeq of any ages, any of them unprobeable.
Remotes ==
    [first : {1}, last : {MaxSeq}, age : [1..MaxSeq -> AgeValues],
     miss : SUBSET (1..MaxSeq)]

\* ------------------------------------------------------ get_article_range
\* An option of the [filters] section: <<>> when absent, <<v>> when set to v.
HasOption(opt) == opt # <<>>
GetInt(opt) == opt[1]

\* The explicit range without the test that it is positive.
UseConfiguredUnsigned(f) ==
    /\ HasOption(f.local_min) /\ HasOption(f.local_max)
    /\ GetInt(f.local_min) < GetInt(f.local_max)

\* create_db.py:29-33
UseConfigured(f) ==
    /\ HasOption(f.local_min) /\ HasOption(f.local_max)
    /\ GetInt(f.local_min) > 0
    /\ GetInt(f.local_max) > 0
    /\ GetInt(f.local_min) < GetInt(f.local_max)

\* The date filter without the test that the ages are positive.
UseDatesUnsigned(f) ==
    /\ HasOption(f.min_days) /\ HasOption(f.max_days)
    /\ GetInt(f.min_days) < GetInt(f.max_days)

\* create_db.py:38-42
UseDates(f) ==
    /\ HasOption(f.min_days) /\ HasOption(f.max_days)
    /\ GetInt(f.min_days) > 0
    /\ GetInt(f.max_days) > 0
    /\ GetInt(f.min_days) < GetInt(f.max_days)

\* return cfg_local_min, cfg_local_max
ReturnConfigured ==
    /\ rpc = "call"
    /\ UseConfigured(filters)
    /\ resolved' = [kind |-> "return",
                    range |-> <<GetInt(filters.local_min), GetInt(filters.local_max)>>,
                    search |-> "unused", probes |-> <<>>]
    /\ rpc' = "done"
    /\ UNCHANGED <<main, filters, remote, fallback>>
    /\ UNCHANGED notRangeVars

\* The found pair as it stands.
AsFound(lower_artnum, upper_artnum) == <<lower_artnum, upper_artnum>>

\* local_min = min(lower_artnum, upper_artnum); local_max = max(...)
OrderedRange(lower_artnum, upper_artnum) ==
    <<Min(lower_artnum, upper_artnum), Max(lower_artnum, upper_artnum)>>

\* The search found a range: the print of create_db.py:48 formats both ages
\* with :.1f, which raises TypeError for None; otherwise min and max.
SearchOutcome(found) ==
    IF ~found.lower_age.found \/ ~found.upper_age.found
    THEN [kind |-> "raise", range |-> <<>>, search |-> "range",
          probes |-> found.probes]
    ELSE [kind |-> "return",
          range |-> OrderedRange(found.lower_artnum, found.upper_artnum),
          search |-> "range", probes |-> found.probes]

\* create_db.py:43-56, against the remote group that the search connects to.
ResolveByDates ==
    /\ rpc = "call"
    /\ ~UseConfigured(filters)
    /\ UseDates(filters)
    /\ \E rem \in Remotes :
          /\ remote' = rem
          /\ LET found == find_article_range_by_dates(rem, GetInt(filters.min_days),
                                                      GetInt(filters.max_days))
             IN  resolved' = IF found.found
                             THEN SearchOutcome(found)
                             ELSE [kind |-> "return", range |-> fallback,
                                   search |-> "no_range", probes |-> found.probes]
    /\ rpc' = "done"
    /\ UNCHANGED <<main, filters, fallback>>
    /\ UNCHANGED notRangeVars

\* return local_min, local_max
ReturnFallback ==
    /\ rpc = "call"
    /\ ~UseConfigured(filters)
    /\ ~UseDates(filters)
    /\ resolved' = [kind |-> "return", range |-> fallback, search |-> "unused",
                    probes |-> <<>>]
    /\ rpc' = "done"
    /\ UNCHANGED <<main, filters, remote, fallback>>
    /\ UNCHANGED notRangeVars

Options(values) == {<<>>} \cup {<<v>> : v \in values}

FilterConfigs ==
    [local_min : Options(CfgSeqValues), local_max : Options(CfgSeqValues),
     min_days : Options(DayValues), max_days : Options(DayValues)]

\* The groups __main__ asks for their range: articles 1..MaxSeq, whole or with
\* a gap at 2, so that the reply's count is not always its last number.
MainServers ==
    {MkServer(1, MaxSeq, (1..MaxSeq) \ gap) : gap \in {{}, {2}}}

\* The database is empty, or already holds the group's last article.
Mains == [db_max : {0, MaxSeq}, server : MainServers]

\* create_db.py:95-102: server_max, server_min = temp_client.group(group)[1:3]
\* and the default range, new articles only.
MainDefaults ==
    /\ rpc = "main"
    /\ LET server_max == nntp_max(main.server)
           server_min == nntp_min(main.server)
           local_min == IF main.db_max > 0 THEN main.db_max + 1 ELSE server_min
           local_max == server_max
       IN  fallback' = <<local_min, local_max>>
    /\ rpc' = "call"
    /\ UNCHANGED <<main, filters, remote, resolved>>
    /\ UNCHANGED notRangeVars

InitRange ==
    /\ main \in Mains
    /\ filters \in FilterConfigs
    /\ fallback = <<0, 0>>
    /\ remote = [first |-> 1, last |-> 1, age |-> <<0>>, miss |-> {}]
    /\ rpc = "main"
    /\ resolved = [kind |-> "none", range |-> <<>>, search |-> "unused",
                   probes |-> <<>>]
    /\ IdleButRange

NextRange ==
    \/ MainDefaults
    \/ ReturnConfigured
    \/ ResolveByDates
    \/ ReturnFallback

SpecRange == InitRange /\ [][NextRange]_vars

\* ------------------------------------------- binary_search_date_boundary
\* A comparison that leaves out the article whose age equals the target.
StrictlyOlder(age, target_days) == age > target_days

\* if age >= target_days (find_date_range.py:67)
OldEnough(age, target_days) == age >= target_days

\* if age <= target_days (find_date_range.py:74)
YoungEnough(age, target_days) == age <= target_days

Mid == (bs.low + bs.high) \div 2

\* result = low if find_lower else high
SearchEnter ==
    /\ bs.pc = "call"
    /\ bs' = [bs EXCEPT !.pc = "loop",
                        !.result = IF bs.find_lower THEN bs.low ELSE bs.high]
    /\ UNCHANGED notSearchVars

\* A miss that narrows away from the side the last dated probe narrowed:
\* toward the result when one was set, as a dated probe on the other side of
\* the target would.
AfterMissBySide ==
    [bs EXCEPT !.probes = Append(@, Mid),
               !.high = IF bs.find_lower THEN @ ELSE Mid - 1,
               !.low = IF bs.find_lower THEN Mid + 1 ELSE @]

\* A miss that leaves the interval as it is and probes again.
AfterMissRetry == bs

\* if dt is None: high = mid - 1 if find_lower else low = mid + 1; continue
AfterMiss ==
    [bs EXCEPT !.probes = Append(@, Mid),
               !.high = IF bs.find_lower THEN Mid - 1 ELSE @,
               !.low = IF bs.find_lower THEN @ ELSE Mid + 1]

\* One iteration whose probe returns None: result is left alone and the
\* interval shrinks on the side the search's kind fixes (lines 54-60).
SearchMiss ==
    /\ bs.pc = "loop"
    /\ bs.low <= bs.high
    /\ ~get_article_date(bs.rem, Mid).found
    /\ bs' = AfterMiss
    /\ UNCHANGED notSearchVars

\* One iteration of the oldest-bound search whose probe returns a date
\* (lines 62-71).
SearchHitLower ==
    /\ bs.pc = "loop"
    /\ bs.low <= bs.high
    /\ bs.find_lower
    /\ LET dt == get_article_date(bs.rem, Mid)
       IN  /\ dt.found
           /\ bs' = IF OldEnough(dt.days_old, bs.target_days)
                    THEN [bs EXCEPT !.probes = Append(@, Mid), !.result = Mid,
                                    !.low = Mid + 1]
                    ELSE [bs EXCEPT !.probes = Append(@, Mid), !.high = Mid - 1]
    /\ UNCHANGED notSearchVars

\* One iteration of the newest-bound search whose probe returns a date
\* (lines 62-64, 72-78).
SearchHitUpper ==
    /\ bs.pc = "loop"
    /\ bs.low <= bs.high
    /\ ~bs.find_lower
    /\ LET dt == get_article_date(bs.rem, Mid)
       IN  /\ dt.found
           /\ bs' = IF YoungEnough(dt.days_old, bs.target_days)
                    THEN [bs EXCEPT !.probes = Append(@, Mid), !.result = Mid,
                                    !.high = Mid - 1]
                    ELSE [bs EXCEPT !.probes = Append(@, Mid), !.low = Mid + 1]
    /\ UNCHANGED notSearchVars

\* while low <= high fails: return result
SearchReturn ==
    /\ bs.pc = "loop"
    /\ bs.low > bs.high
    /\ bs' = [bs EXCEPT !.pc = "returned"]
    /\ UNCHANGED notSearchVars

\* The target ages of the searches: the window's bounds.
TargetDays == 1..2

\* The calls find_article_range_by_dates makes: the group's whole range.
InitSearch ==
    /\ \E rem \in Remotes, target_days \in TargetDays, find_lower \in BOOLEAN :
          bs = [pc |-> "call", rem |-> rem, target_days |-> target_days,
                find_lower |-> find_lower, low |-> rem.first, high |-> rem.last,
                result |-> 0, probes |-> <<>>]
    /\ IdleButSearch

NextSearch ==
    \/ SearchEnter
    \/ SearchMiss
    \/ SearchHitLower
    \/ SearchHitUpper
    \/ SearchReturn

SpecSearch == InitSearch /\ [][NextSearch]_vars

\* The call runs on: the loop is sequential code whose probes return (a
\* probe that fails returns None, find_date_range.py:23-24).
SpecSearchRuns == SpecSearch /\ WF_vars(NextSearch)

\* ---------------------------------------- fetch_rows_xover, normalizing
\* What a server may put in the bytes field: nothing, digits, digits with an
\* unencodable code unit, other text, or (through another client) an int.
RawBytes ==
    {PyNone, StrVal(<<"1", "2">>), StrVal(<<"1", Surrogate>>), StrVal(<<"a">>),
     IntVal(7)}
RawLines == {PyNone, StrVal(<<"3">>), StrVal(<<"x">>)}
RawDates == {PyNone, StrVal(ValidDate), StrVal(<<"soon">>), IntVal(5)}

\* A raw field map with these bytes, lines and date values; PyNone stands for
\* a key the map does not have.
RawMap(bytes, lines, date) ==
    LET given == [key \in {":bytes", ":lines", "date", "message-id"} |->
                    CASE key = ":bytes" -> bytes
                      [] key = ":lines" -> lines
                      [] key = "date" -> date
                      [] OTHER -> StrVal(<<"<", "m", ">">>)]
        keys == {key \in DOMAIN given : given[key] # PyNone}
    IN  [key \in keys |-> given[key]]

\* The overviews of a reply: field maps of every mix of the values above, the
\* empty map, and an entry that is no dict.
RawOverviews ==
    {RawMap(b, l, d) : b \in RawBytes, l \in RawLines, d \in RawDates}
        \cup {[key \in {} |-> PyNone], NotADict}

\* The whole of fetch.py:59-87 on the reply at hand.
NormalizeOverviews ==
    /\ norm.pc = "call"
    /\ LET out == RowsFromOverviews(xover_reply)
       IN  norm' = [pc |-> "done", raised |-> out.raised, rows |-> out.rows]
    /\ UNCHANGED xover_reply
    /\ UNCHANGED notNormVars

InitNorm ==
    /\ \E len \in 0..MaxOverviews :
          \E ovs \in [1..len -> RawOverviews] :
              xover_reply = [i \in 1..len |-> <<i, ovs[i]>>]
    /\ norm = [pc |-> "call", raised |-> FALSE, rows |-> <<>>]
    /\ IdleButNorm

NextNorm == NormalizeOverviews

SpecNorm == InitNorm /\ [][NextNorm]_vars

\* ------------------------------------------------------------- nzb.py
\* A subject is a sequence of pieces: a word (with its file extension, if
\* any), a blank, a bracketed counter "(n/m)", the phrase "part n of m", or
\* the word yEnc. Counters, phrases and yEnc stand apart from words, so that
\* removing one never joins two words.
Word(text, ext) == [kind |-> "word", text |-> text, ext |-> ext, n |-> 0, m |-> 0]
Blank == [kind |-> "blank", text |-> " ", ext |-> "", n |-> 0, m |-> 0]
Counter(n, m) == [kind |-> "counter", text |-> "", ext |-> "", n |-> n, m |-> m]
PartOf(n, m) == [kind |-> "partof", text |-> "", ext |-> "", n |-> n, m |-> m]
YEnc == [kind |-> "yenc", text |-> "yEnc", ext |-> "", n |-> 0, m |-> 0]

NoMatch == [found |-> FALSE, n |-> 0, m |-> 0]
Match(piece) == [found |-> TRUE, n |-> piece.n, m |-> piece.m]

Positions(subject, kind) == {i \in DOMAIN subject : subject[i].kind = kind}
FirstOf(S) == CHOOSE i \in S : \A j \in S : i <= j
LastOf(S) == CHOOSE i \in S : \A j \in S : j <= i

\* re.search of the bracketed form, then of "part n of m".
extract_nm_leftmost(subject) ==
    IF Positions(subject, "counter") # {}
    THEN Match(subject[FirstOf(Positions(subject, "counter"))])
    ELSE IF Positions(subject, "partof") # {}
    THEN Match(subject[FirstOf(Positions(subject, "partof"))])
    ELSE NoMatch

\* The last match of the bracketed form only.
extract_nm_rightmost_bracketed(subject) ==
    IF Positions(subject, "counter") # {}
    THEN Match(subject[LastOf(Positions(subject, "counter"))])
    ELSE NoMatch

\* The last match of the bracketed form, then of "part n of m".
extract_nm_rightmost(subject) ==
    IF Positions(subject, "counter") # {}
    THEN Match(subject[LastOf(Positions(subject, "counter"))])
    ELSE IF Positions(subject, "partof") # {}
    THEN Match(subject[LastOf(Positions(subject, "partof"))])
    ELSE NoMatch

\* str.strip(): the blanks at both ends go.
RECURSIVE Strip(_)
Strip(pieces) ==
    IF pieces = <<>> THEN <<>>
    ELSE IF Head(pieces).kind = "blank" THEN Strip(Tail(pieces))
    ELSE IF pieces[Len(pieces)].kind = "blank"
    THEN Strip(SubSeq(pieces, 1, Len(pieces) - 1))
    ELSE pieces

\* The three re.sub calls, then strip().
normalize_subject_base(subject) ==
    Strip(SelectSeq(subject, LAMBDA piece : piece.kind \in {"word", "blank"}))

\* picker_fn(subj)
Pick(strategy, subject) ==
    IF strategy = "leftmost" THEN extract_nm_leftmost(subject)
    ELSE extract_nm_rightmost(subject)

\* A key that leaves the total part count out.
KeyWithoutTotal(strategy, r) ==
    [base |-> normalize_subject_base(r.subject), m |-> 0, poster |-> r.from_addr]

\* key = (base, m, poster)
GroupKey(strategy, r) ==
    [base |-> normalize_subject_base(r.subject),
     m |-> Pick(strategy, r.subject).m,
     poster |-> r.from_addr]

\* groups[key] = [r]: the key's list is replaced, not extended.
SetGroup(groups, key, r) ==
    IF \E i \in DOMAIN groups : groups[i].key = key
    THEN [i \in DOMAIN groups |->
            IF groups[i].key = key
            THEN [groups[i] EXCEPT !.parts = <<r>>]
            ELSE groups[i]]
    ELSE Append(groups, [key |-> key, parts |-> <<r>>])

\* groups.setdefault(key, []).append(r): dict entries keep insertion order.
AddToGroup(groups, key, r) ==
    IF \E i \in DOMAIN groups : groups[i].key = key
    THEN [i \in DOMAIN groups |->
            IF groups[i].key = key
            THEN [groups[i] EXCEPT !.parts = Append(@, r)]
            ELSE groups[i]]
    ELSE Append(groups, [key |-> key, parts |-> <<r>>])

\* The loop of _group_with_picker.
RECURSIVE GroupLoop(_, _, _, _)
GroupLoop(rows, strategy, groups, singles) ==
    IF rows = <<>> THEN [groups |-> groups, singles |-> singles]
    ELSE LET r == Head(rows)
         IN  IF ~Pick(strategy, r.subject).found
             THEN GroupLoop(Tail(rows), strategy, groups, Append(singles, r))
             ELSE GroupLoop(Tail(rows), strategy,
                            AddToGroup(groups, GroupKey(strategy, r), r), singles)

group_with_picker(rows, strategy) == GroupLoop(rows, strategy, <<>>, <<>>)

RECURSIVE SumLen(_)
SumLen(groups) ==
    IF groups = <<>> THEN 0 ELSE Len(Head(groups).parts) + SumLen(Tail(groups))

\* score_groups: (total_parts, multi_part)
score_groups(groups) ==
    <<SumLen(groups), Len(SelectSeq(groups, LAMBDA g : Len(g.parts) > 1))>>

\* Tuple comparison a > b of two pairs.
PairGreater(a, b) == a[1] > b[1] \/ (a[1] = b[1] /\ a[2] > b[2])

\* A selection that takes the rightmost grouping also on a tie.
RightmostOnTie(cand) ==
    ~PairGreater(score_groups(cand.left.groups), score_groups(cand.right.groups))

\* if score_right > score_left
RightmostWins(cand) ==
    PairGreater(score_groups(cand.right.groups), score_groups(cand.left.groups))

\* message_id_text: a text in angle brackets loses them.
message_id_text(mid) ==
    IF Len(mid) >= 2 /\ mid[1] = "<" /\ mid[Len(mid)] = ">"
    THEN SubSeq(mid, 2, Len(mid) - 1)
    ELSE mid

\* str.lower() of the extensions the model's subjects carry.
Lower(ext) == IF ext = ".EXE" THEN ".exe" ELSE ext

\* A test that compares the ending as it is written.
EndsWithExeAsWritten(base) ==
    /\ base # <<>>
    /\ base[Len(base)].kind = "word"
    /\ base[Len(base)].ext = ".exe"

\* base.lower().endswith('.exe')
EndsWithExe(base) ==
    /\ base # <<>>
    /\ base[Len(base)].kind = "word"
    /\ Lower(base[Len(base)].ext) = ".exe"

\* A re-parse that reads the leftmost token.
PartNumberLeftmost(subject) == extract_nm_leftmost(subject)

\* nm = extract_nm_rightmost(subj) or extract_nm_leftmost(subj)
PartNumber(subject) ==
    IF extract_nm_rightmost(subject).found THEN extract_nm_rightmost(subject)
    ELSE extract_nm_leftmost(subject)

\* parts_with_numbers: the (n, part) pairs of the parts with a counter.
RECURSIVE PartsWithNumbers(_)
PartsWithNumbers(parts) ==
    IF parts = <<>> THEN <<>>
    ELSE (IF PartNumber(Head(parts).subject).found
          THEN << <<PartNumber(Head(parts).subject).n, Head(parts)>> >>
          ELSE <<>>) \o PartsWithNumbers(Tail(parts))

\* The members left in the order they were grouped.
InGroupOrder(pairs) == pairs

RECURSIVE InsertPair(_, _)
InsertPair(pair, sorted) ==
    IF sorted = <<>> THEN <<pair>>
    ELSE IF pair[1] < Head(sorted)[1] THEN <<pair>> \o sorted
    ELSE <<Head(sorted)>> \o InsertPair(pair, Tail(sorted))

RECURSIVE SortPairs(_)
SortPairs(pairs) ==
    IF pairs = <<>> THEN <<>>
    ELSE InsertPair(pairs[Len(pairs)], SortPairs(SubSeq(pairs, 1, Len(pairs) - 1)))

\* parts_with_numbers.sort(key=lambda x: x[0]), a stable sort.
SortByPartNumber(pairs) == SortPairs(pairs)

Segment(pair) ==
    [number |-> pair[1], bytes |-> pair[2].bytes,
     text |-> message_id_text(pair[2].message_id)]

\* A test that never finds a set incomplete.
NeverIncomplete(group, require_complete) == FALSE

\* The test on the number of members alone (nzb.py:104-105).
SkippedWhenShort(group, require_complete) ==
    require_complete /\ Len(group.parts) < group.key.m

\* The two tests that drop an incomplete set (nzb.py:104-105, 121-127).
SkippedAsIncomplete(group, require_complete) ==
    LET numbers == {pair[1] : pair \in SeqToSet(PartsWithNumbers(group.parts))}
    IN  /\ require_complete
        /\ \/ Len(group.parts) < group.key.m
           \/ (numbers # {} /\ (1..group.key.m) \ numbers # {})

\* The file element of one group; key is not part of the document, it names
\* the group the element was built from.
FileElement(group) ==
    LET pairs == SortByPartNumber(PartsWithNumbers(group.parts))
    IN  [poster |-> group.key.poster, subject |-> group.key.base,
         segments |-> [i \in DOMAIN pairs |-> Segment(pairs[i])],
         key |-> group.key]

\* A file entry of one segment for a row without counter.
SingleEntry(r) ==
    [poster |-> r.from_addr, subject |-> normalize_subject_base(r.subject),
     segments |-> <<Segment(<<1, r>>)>>,
     key |-> [base |-> normalize_subject_base(r.subject), m |-> 1,
              poster |-> r.from_addr]]

\* A builder that writes a file entry for every single after the groups'.
RECURSIVE build_nzb_xml_with_singles(_, _, _)
build_nzb_xml_with_singles(groups, singles, require_complete) ==
    IF groups = <<>> THEN [i \in DOMAIN singles |-> SingleEntry(singles[i])]
    ELSE (IF SkippedAsIncomplete(Head(groups), require_complete)
             \/ EndsWithExe(Head(groups).key.base)
          THEN <<>>
          ELSE <<FileElement(Head(groups))>>)
         \o build_nzb_xml_with_singles(Tail(groups), singles, require_complete)

\* The loop of build_nzb_xml over groups_dict.items().
RECURSIVE build_nzb_xml(_, _, _)
build_nzb_xml(groups, singles, require_complete) ==
    IF groups = <<>> THEN <<>>
    ELSE (IF SkippedAsIncomplete(Head(groups), require_complete)
             \/ EndsWithExe(Head(groups).key.base)
          THEN <<>>
          ELSE <<FileElement(Head(groups))>>)
         \o build_nzb_xml(Tail(groups), singles, require_complete)

\* group_rows_auto, lines 70-71: both strategies over the whole batch.
GroupBoth ==
    /\ npc = "rows"
    /\ candidates' = [left |-> group_with_picker(db_rows, "leftmost"),
                      right |-> group_with_picker(db_rows, "rightmost")]
    /\ npc' = "grouped"
    /\ UNCHANGED <<db_rows, require_complete_sets, selected, manifest>>
    /\ UNCHANGED notNzbVars

\* group_rows_auto, lines 73-86: the scores and the choice.
SelectStrategy ==
    /\ npc = "grouped"
    /\ selected' = IF RightmostWins(candidates)
                   THEN [strategy |-> "rightmost",
                         groups |-> candidates.right.groups,
                         singles |-> candidates.right.singles]
                   ELSE [strategy |-> "leftmost",
                         groups |-> candidates.left.groups,
                         singles |-> candidates.left.singles]
    /\ npc' = "selected"
    /\ UNCHANGED <<db_rows, require_complete_sets, candidates, manifest>>
    /\ UNCHANGED notNzbVars

\* build_nzb_xml(groups_dict, singles, group, require_complete_sets)
BuildNzbXml ==
    /\ npc = "selected"
    /\ manifest' = build_nzb_xml(selected.groups, selected.singles,
                                 require_complete_sets)
    /\ npc' = "built"
    /\ UNCHANGED <<db_rows, require_complete_sets, candidates, selected>>
    /\ UNCHANGED notNzbVars

Foo == Word("Foo", "")

\* The subjects of the rows, with their posters: the parts of Foo as (n/2),
\* one with yEnc, one as "part n of m", a part of a set of three, a part by
\* another poster, a subject without counter, subjects with a second counter
\* in front, and the parts of an executable.
RowKinds ==
    {[subject |-> <<Foo, Blank, Counter(1, 2)>>, from_addr |-> "p"],
     [subject |-> <<Foo, Blank, YEnc, Blank, Counter(2, 2)>>, from_addr |-> "p"],
     [subject |-> <<Foo, Blank, PartOf(2, 2)>>, from_addr |-> "p"],
     [subject |-> <<Foo, Blank, Counter(1, 3)>>, from_addr |-> "p"],
     [subject |-> <<Foo, Blank, Counter(1, 2)>>, from_addr |-> "q"],
     [subject |-> <<Foo>>, from_addr |-> "p"],
     [subject |-> <<Counter(2, 3), Blank, Foo, Blank, Counter(1, 2)>>, from_addr |-> "p"],
     [subject |-> <<Counter(2, 4), Blank, Foo, Blank, Counter(2, 2)>>, from_addr |-> "p"],
     [subject |-> <<Word("Foo", ".EXE"), Blank, Counter(1, 2)>>, from_addr |-> "p"],
     [subject |-> <<Word("Foo", ".EXE"), Blank, Counter(2, 2)>>, from_addr |-> "p"]}

\* The row at position i of the batch: artnum ascending (ORDER BY artnum), its
\* own message id.
DbRow(kind, i) ==
    [subject |-> kind.subject, from_addr |-> kind.from_addr, artnum |-> i,
     bytes |-> 100 * i, message_id |-> <<"<", "m">> \o IntText(i) \o <<">">>]

InitNzb ==
    /\ \E len \in 1..MaxRows :
          \E kinds \in [1..len -> RowKinds] :
              db_rows = [i \in 1..len |-> DbRow(kinds[i], i)]
    /\ require_complete_sets \in BOOLEAN
    /\ npc = "rows"
    /\ candidates = [left |-> NoGrouping, right |-> NoGrouping]
    /\ selected = [strategy |-> "none", groups |-> <<>>, singles |-> <<>>]
    /\ manifest = <<>>
    /\ IdleButNzb

NextNzb ==
    \/ GroupBoth
    \/ SelectStrategy
    \/ BuildNzbXml

SpecNzb == InitNzb /\ [][NextNzb]_vars

\* -------------------------------------------------------------- db.py
\* A row as upsert_headers binds it: message_id is a text or None; artnum
\* stands for the row's other columns as well.
Bound(group, r) ==
    [message_id |-> r.message_id, group_name |-> group, artnum |-> r.artnum]

\* Whether inserting the row would break a constraint of table articles:
\* message_id TEXT PRIMARY KEY is a rowid table's unique index, in which a
\* NULL equals no other value and is not refused; group_name and artnum are
\* NOT NULL.
BreaksConstraint(tbl, row) ==
    \/ /\ row.message_id # PyNone
       /\ \E i \in DOMAIN tbl : tbl[i].message_id = row.message_id
    \/ row.group_name = ""
    \/ row.artnum = 0

\* INSERT OR IGNORE of one row.
InsertOrIgnore(tbl, row) ==
    IF BreaksConstraint(tbl, row) THEN tbl ELSE Append(tbl, row)

\* executemany over to_bind, then commit.
RECURSIVE upsert_headers(_, _, _)
upsert_headers(tbl, group, rows) ==
    IF rows = <<>> THEN tbl
    ELSE upsert_headers(InsertOrIgnore(tbl, Bound(group, Head(rows))), group, Tail(rows))

\* ensure_db: CREATE TABLE IF NOT EXISTS leaves an existing table as it is.
EnsureDb ==
    /\ dpc \in {"connected", "ready"}
    /\ dpc' = "ready"
    /\ UNCHANGED <<articles, applied>>
    /\ UNCHANGED notDbVars

MessageIds == {PyNone, StrVal(<<"<", "a", ">">>), StrVal(<<"<", "b", ">">>)}
HeaderRows == [message_id : MessageIds, artnum : 1..2]
GroupNames == {"g", "h"}

Batches == UNION {[1..len -> HeaderRows] : len \in 1..MaxBatch}

UpsertHeaders(group, rows) ==
    /\ dpc = "ready"
    /\ Len(articles) + Len(rows) <= MaxStored
    /\ articles' = upsert_headers(articles, group, rows)
    /\ applied' = [group |-> group, rows |-> rows]
    /\ UNCHANGED dpc
    /\ UNCHANGED notDbVars

InitDb ==
    /\ dpc = "connected"
    /\ articles = <<>>
    /\ applied = NoCall
    /\ IdleButDb

NextDb ==
    \/ EnsureDb
    \/ \E group \in GroupNames : \E rows \in Batches : UpsertHeaders(group, rows)

SpecDb == InitDb /\ [][NextDb]_vars

\* ---------------------------------------------------------------- claims
IsSortedByArtnum(rows) ==
    \A i \in 1..(Len(rows) - 1) : rows[i].artnum <= rows[i + 1].artnum

NoTaskFailed == \A t \in Tasks : ~task[t].exc

\* One range query over everything the chunks were cut from.
UnpartitionedFetch ==
    fetch_rows_xover(server, plan.local_min, plan.local_min + plan.want - 1)

WorkerConns == {h \in DOMAIN conns : conns[h].owner # TempOwner}

\* C1: when the call returns and no sub-range failed, the result is sorted
\* ascending by artnum and holds exactly the records of one unpartitioned
\* fetch over the same range, whatever the completion order was.
C1_MergeDeterminism ==
    (pc = "returned" /\ NoTaskFailed) =>
        /\ IsSortedByArtnum(result)
        /\ SeqToSet(result) = SeqToSet(UnpartitionedFetch)

\* A return where a later chunk's rows were merged before an earlier chunk's.
C1_Witness ==
    /\ pc = "returned"
    /\ NoTaskFailed
    /\ \E i, j \in DOMAIN collected :
          /\ i < j
          /\ collected[i] > collected[j]
          /\ task[collected[i]].rows # <<>>
          /\ task[collected[j]].rows # <<>>

RowsOfTasks(ts) == UNION {SeqToSet(task[t].rows) : t \in ts}

\* C2 as stated: the result holds the records of exactly the sub-ranges whose
\* range query succeeded.
C2_QuerySucceededKept ==
    pc = "returned" =>
        SeqToSet(result) = RowsOfTasks({t \in Tasks : task[t].fetched})

\* C2 amended: once tasks are submitted the call never raises; at the return
\* every sub-range's task has run to its end, every sub-range whose connection
\* opened had its range query issued exactly once on exactly one connection,
\* and the result holds exactly the records of the sub-ranges whose task ended
\* without an exception (open, query, normalizing and quit all succeeded).
C2_PartialFailureTolerant ==
    /\ pc = "raised" => Tasks = {}
    /\ \A t \in Tasks :
          /\ Cardinality({h \in DOMAIN conns : conns[h].owner = t}) <= 1
          /\ \A h \in DOMAIN conns : conns[h].owner = t => conns[h].xovers <= 1
    /\ pc = "returned" =>
          /\ Tasks = 1..Len(plan.chunks)
          /\ \A t \in Tasks :
                /\ task[t].st = "done"
                /\ task[t].client # 0 => conns[task[t].client].xovers = 1
          /\ SeqToSet(result) = RowsOfTasks({t \in Tasks : ~task[t].exc})
          /\ IsSortedByArtnum(result)

\* A return with one sub-range failed in its query, and another that
\* succeeded with rows.
C2_Witness ==
    /\ pc = "returned"
    /\ \E t, u \in Tasks :
          /\ task[t].exc /\ ~task[t].fetched /\ task[t].client # 0
          /\ ~task[u].exc /\ task[u].rows # <<>>

\* C4: every connection is used by one caller only, no two sub-range tasks
\* hold the same handle, and a task's handle is a connection opened for it.
C4_OwnConnection ==
    /\ \A h \in DOMAIN conns : Cardinality(conns[h].users) <= 1
    /\ \A t, u \in Tasks :
          (t # u /\ task[t].client # 0 /\ task[u].client # 0)
              => task[t].client # task[u].client
    /\ \A t \in Tasks :
          task[t].client # 0 => conns[task[t].client].owner = t

\* Two sub-range tasks that both issued their query and have not yet quit.
C4_Witness ==
    \E t, u \in Tasks :
        /\ t # u
        /\ task[t].st = "queried"
        /\ task[u].st = "queried"
        /\ conns[task[t].client].users = {t}
        /\ conns[task[u].client].users = {u}

\* C5: a finished task has closed the connection it opened, whether its range
\* query returned or raised, and at the return no worker connection is open.
C5_ConnectionsReleased ==
    /\ \A t \in Tasks :
          (task[t].st = "done" /\ task[t].client # 0)
              => ~conns[task[t].client].open
    /\ pc = "returned" => \A h \in WorkerConns : ~conns[h].open

\* A return after one task's query raised and another's returned.
C5_Witness ==
    /\ pc = "returned"
    /\ \E t, u \in Tasks :
          /\ task[t].client # 0 /\ ~task[t].fetched
          /\ task[u].client # 0 /\ task[u].fetched

AllTasksFinished ==
    /\ pc \in {"collect", "returned"}
    /\ \A t \in Tasks : task[t].st = "done"

\* C6, its last part as stated: a sub-range waiting in the queue is never held
\* up by hung sub-ranges alone (a free thread or a live worker exists).
C6_HangBlocksOnlyItself ==
    \A t \in Tasks :
        task[t].st = "pending" => (WorkerAvailable \/ Running \ Hung # {})

\* C6 amended: the call does not return while a submitted task is pending or
\* running; once every task has finished or failed the call returns; and
\* unless as many sub-ranges hang as the pool has threads, every sub-range
\* that does not hang itself runs to its end.
C6_ReturnsAfterAllTasks ==
    /\ [](pc = "returned" =>
            (Tasks = 1..Len(plan.chunks) /\ \A t \in Tasks : task[t].st = "done"))
    /\ (AllTasksFinished ~> pc = "returned")
    /\ <>(\/ pc = "raised"
          \/ AllTasksFinished
          \/ /\ pc = "collect"
             /\ \/ Cardinality(Hung) >= config.max_workers
                \/ \A t \in Tasks : task[t].st \in {"done", "hung"})

\* One sub-range hangs while its siblings have run to their end.
C6_Witness ==
    /\ pc = "collect"
    /\ Cardinality(Hung) = 1
    /\ Cardinality(Hung) < config.max_workers
    /\ Cardinality(Finished) >= 2
    /\ Finished \cup Hung = Tasks

\* C7 as stated: the merged list changes only after all workers have finished.
C7_MergeAfterJoin ==
    [][all_rows' # all_rows =>
          (Tasks = 1..Len(plan.chunks) /\ \A t \in Tasks : task[t].st = "done")]_vars

\* C7 amended: the merged list is changed only by the coordinating thread, by
\* merging the rows of a finished task or by the final sort, while siblings may
\* still run; and a task's row list is written only by that task's own query.
C7_NoSharedMutation ==
    [][/\ all_rows' # all_rows =>
             \/ SortAndReturn
             \/ \E t \in Tasks : task[t].st = "done" /\ Collect(t)
       /\ \A t \in Tasks :
             (t \in DOMAIN task' /\ task'[t].rows # task[t].rows) => XoverOk(t)]_vars

\* Rows are merged while a sibling is still running.
C7_Witness ==
    /\ all_rows # <<>>
    /\ pc = "collect"
    /\ \E t \in Tasks : task[t].st \in {"opened", "queried"}

\* C8: never more sub-range fetches in progress, nor worker connections open,
\* than max_workers.
C8_BoundedPool ==
    /\ Cardinality(Running) <= Max(config.max_workers, 0)
    /\ Cardinality({h \in WorkerConns : conns[h].open}) <= Max(config.max_workers, 0)

\* The pool is full while a further sub-range waits.
C8_Witness ==
    /\ Cardinality(Running) = config.max_workers
    /\ Cardinality({h \in WorkerConns : conns[h].open}) = config.max_workers
    /\ \E t \in Tasks : task[t].st = "pending"

StructuralError ==
    \/ LocalMin(config, server) > LocalMax(config, server)
    \/ config.max_workers = 0

\* C9: a call with low > high or max_workers = 0 is rejected before any
\* connection is opened and never returns a result.
C9_RejectedUpFront ==
    (pc # "idle" /\ StructuralError) =>
        /\ conns = <<>>
        /\ pc \in {"call", "raised"}


ChunkSize(c) == c[2] - c[1] + 1

\* The number of sequence numbers the claim says are requested.
ClaimedWant ==
    LET total == plan.local_max - plan.local_min + 1
    IN  IF config.limit <= 0 THEN total ELSE Min(config.limit, total)

\* C3: for low <= high and chunk_size >= 1 the chunks start at low, are
\* contiguous, disjoint and ascending, each hold 1..chunk_size numbers, and
\* cover exactly the first want numbers of [low, high]; a positive limit is
\* never exceeded.
C3_ChunksPartitionRange ==
    (pc = "planned" /\ plan.local_min <= plan.local_max /\ config.chunk_size >= 1) =>
        LET chunks == plan.chunks
            n == Len(chunks)
        IN  /\ plan.want = ClaimedWant
            /\ n >= 1
            /\ chunks[1][1] = plan.local_min
            /\ \A i \in 1..n :
                  /\ ChunkSize(chunks[i]) >= 1
                  /\ ChunkSize(chunks[i]) <= config.chunk_size
            /\ \A i \in 1..(n - 1) : chunks[i + 1][1] = chunks[i][2] + 1
            /\ chunks[n][2] = plan.local_min + ClaimedWant - 1
            /\ chunks[n][2] <= plan.local_max
            /\ config.limit > 0 =>
                  chunks[n][2] - chunks[1][1] + 1 <= config.limit

\* A plan of several chunks whose last chunk the limit cut short.
C3_Witness ==
    /\ pc = "planned"
    /\ plan.local_min <= plan.local_max
    /\ config.limit > 0
    /\ Len(plan.chunks) >= 2
    /\ LET last == plan.chunks[Len(plan.chunks)]
       IN  /\ ChunkSize(last) < config.chunk_size
           /\ last[2] < plan.local_max
           /\ last[2] - plan.local_min + 1 = config.limit


\* C10 as stated: when the explicit range does not apply and min_days and
\* max_days are both configured with min_days < max_days, the age-window
\* search is used.
C10_SearchWhenConfigured ==
    (/\ rpc = "done"
     /\ ~UseConfigured(filters)
     /\ HasOption(filters.min_days) /\ HasOption(filters.max_days)
     /\ GetInt(filters.min_days) < GetInt(filters.max_days))
        => (resolved.search # "unused" /\ resolved.probes # <<>>)

ExplicitGiven ==
    /\ filters.local_min # <<>> /\ filters.local_max # <<>>
    /\ filters.local_min[1] > 0 /\ filters.local_max[1] > 0
    /\ filters.local_min[1] < filters.local_max[1]

DaysGiven ==
    /\ filters.min_days # <<>> /\ filters.max_days # <<>>
    /\ filters.min_days[1] > 0 /\ filters.max_days[1] > 0
    /\ filters.min_days[1] < filters.max_days[1]

\* C10 amended: the configured [local_min, local_max] is returned, with no
\* remote probe, whenever both are positive and local_min < local_max;
\* otherwise the age-window search is used exactly when min_days and max_days
\* are both configured, both positive and min_days < max_days; when it is not
\* used, or yields no range, the caller's bounds are returned unchanged.
C10_RangePriority ==
    rpc = "done" =>
        /\ ExplicitGiven =>
              /\ resolved.kind = "return"
              /\ resolved.range = <<filters.local_min[1], filters.local_max[1]>>
              /\ resolved.search = "unused"
              /\ resolved.probes = <<>>
        /\ (~ExplicitGiven /\ DaysGiven) =>
              /\ resolved.search # "unused"
              /\ resolved.probes # <<>>
              /\ resolved.search = "no_range"
                    => (resolved.kind = "return" /\ resolved.range = fallback)
        /\ (~ExplicitGiven /\ ~DaysGiven) =>
              /\ resolved.search = "unused"
              /\ resolved.kind = "return"
              /\ resolved.range = fallback
              /\ resolved.probes = <<>>

\* The explicit range is set but not usable, the date filter is, and the
\* search found a range that differs from the caller's bounds.
C10_Witness ==
    /\ rpc = "done"
    /\ HasOption(filters.local_min) /\ HasOption(filters.local_max)
    /\ ~ExplicitGiven
    /\ DaysGiven
    /\ resolved.kind = "return"
    /\ resolved.search = "range"
    /\ resolved.range # fallback

\* ------------------------------------------------------------ C11
\* Age never increases with the article number.
AgeNonIncreasing(rem) ==
    \A a, b \in rem.first..rem.last : a < b => rem.age[a] >= rem.age[b]

AtLeast(rem, days) == {a \in rem.first..rem.last : rem.age[a] >= days}
AtMost(rem, days) == {a \in rem.first..rem.last : rem.age[a] <= days}

SetMax(S) == CHOOSE a \in S : \A b \in S : b <= a
SetMin(S) == CHOOSE a \in S : \A b \in S : a <= b

\* The search as the function computes it in one go.
SearchFunction ==
    binary_search_date_boundary(bs.rem, bs.rem.first, bs.rem.last,
                                bs.target_days, bs.find_lower)

\* The step-wise search returns and probes what the function does, for every
\* age function and every pattern of misses.
SearchAgrees ==
    bs.pc = "returned" =>
        (bs.result = SearchFunction.result /\ bs.probes = SearchFunction.probes)

\* C11: over ages that never increase with the article number and with every
\* probe answered, the oldest-bound search returns the largest article number
\* in [first, last] whose age is >= the target, and the newest-bound search the
\* smallest one whose age is <= the target, whenever such a number exists.
C11_BoundaryFound ==
    (bs.pc = "returned" /\ AgeNonIncreasing(bs.rem) /\ bs.rem.miss = {}) =>
        /\ (bs.find_lower /\ AtLeast(bs.rem, bs.target_days) # {})
              => bs.result = SetMax(AtLeast(bs.rem, bs.target_days))
        /\ (~bs.find_lower /\ AtMost(bs.rem, bs.target_days) # {})
              => bs.result = SetMin(AtMost(bs.rem, bs.target_days))

\* An oldest-bound search that returned a boundary strictly inside the range,
\* at an article whose age equals the target, after more than one probe.
C11_Witness ==
    /\ bs.pc = "returned"
    /\ AgeNonIncreasing(bs.rem) /\ bs.rem.miss = {}
    /\ bs.find_lower
    /\ bs.result > bs.rem.first /\ bs.result < bs.rem.last
    /\ bs.rem.age[bs.result] = bs.target_days
    /\ bs.rem.age[bs.result + 1] < bs.target_days
    /\ Len(bs.probes) >= 2

\* ------------------------------------------------------------ C12
\* The two boundary results of a search that yielded a range: the last two
\* probes are the final probes of the two boundary records.
FoundLower == resolved.probes[Len(resolved.probes) - 1]
FoundUpper == resolved.probes[Len(resolved.probes)]

\* C12: whenever the age-window search yields a range and get_article_range
\* returns it, the returned (low, high) is the two boundary results put in
\* order, low <= high, for every age function and every pattern of misses.
C12_RangeOrdered ==
    (rpc = "done" /\ resolved.search = "range" /\ resolved.kind = "return") =>
        /\ resolved.range[1] <= resolved.range[2]
        /\ {resolved.range[1], resolved.range[2]} = {FoundLower, FoundUpper}

\* A returned range whose oldest-bound result was the larger number, found
\* while some probes missed.
C12_Witness ==
    /\ rpc = "done"
    /\ resolved.search = "range"
    /\ resolved.kind = "return"
    /\ remote.miss # {}
    /\ FoundLower > FoundUpper
    /\ resolved.range = <<FoundUpper, FoundLower>>

\* ------------------------------------------------------------ C13
\* The probe of the last article answered, and its age is above max_days.
NewestTooOld ==
    /\ remote.last \notin remote.miss
    /\ remote.age[remote.last] > filters.max_days[1]

\* The probe of the first article answered, and its age is below min_days.
OldestTooYoung ==
    /\ remote.first \notin remote.miss
    /\ remote.age[remote.first] < filters.min_days[1]

\* C13: when the age-window search is used and the newest record is older than
\* max_days, or the oldest younger than min_days, no range is found, neither
\* binary search runs (only the first and last article are probed), and the
\* range the caller goes on with is the remote group's (first, last).
C13_NoRangeUsesRemoteBounds ==
    (rpc = "done" /\ ~ExplicitGiven /\ DaysGiven
        /\ (NewestTooOld \/ OldestTooYoung)) =>
        /\ resolved.search = "no_range"
        /\ SeqToSet(resolved.probes) \subseteq {remote.first, remote.last}
        /\ Len(resolved.probes) <= 2
        /\ resolved.kind = "return"
        /\ resolved.range = <<remote.first, remote.last>>

\* ------------------------------------------------------------ C14
\* C14: with start = 0 and back_filled_up_to = 0 the planned range is the
\* group's (first, last) of the select-group reply, also when the reply's
\* count differs from its last number.
C14_DefaultRangeIsRemoteBounds ==
    (/\ pc \notin {"idle", "call", "temp", "raised"}
     /\ config.start = 0 /\ config.back_filled_up_to = 0
     /\ server.count # server.last) =>
        /\ plan.local_min = server.first
        /\ plan.local_max = server.last

\* ------------------------------------------------------------ C15
\* C15: whatever probes miss, get_article_range returns a range and never
\* raises.
C15_ProbeMissesIsolated ==
    rpc = "done" => (resolved.kind = "return" /\ Len(resolved.range) = 2)

\* ------------------------------------------------------------ C16
\* The raw value of a field in an overview: PyNone when the key is absent.
RawValue(ov, key) == IF key \in DOMAIN ov THEN ov[key] ELSE PyNone

\* The value is a number or a text of decimal digits.
Coercible(v) ==
    \/ v.kind = "int"
    \/ (v.kind = "str" /\ Encodable(v.text) # <<>>
          /\ \A i \in DOMAIN Encodable(v.text) : IsDigit(Encodable(v.text)[i]))

\* C16: normalizing never raises, whatever the raw field maps are; every
\* entry of the reply yields its row; bytes and lines are 0 where the raw
\* value is absent or not coercible to a number; date_utc is None where the
\* date does not parse.
C16_NormalizerTotal ==
    (norm.pc = "done" /\ \A i \in DOMAIN xover_reply : IsDict(xover_reply[i][2])) =>
        /\ ~norm.raised
        /\ Len(norm.rows) = Len(xover_reply)
        /\ \A i \in DOMAIN norm.rows :
                  LET ov == xover_reply[i][2]
                      row == norm.rows[i]
                  IN  /\ row.artnum = xover_reply[i][1]
                      /\ ~Coercible(RawValue(ov, ":bytes")) => row.bytes = 0
                      /\ ~Coercible(RawValue(ov, ":lines")) => row.lines = 0
                      /\ RawValue(ov, "date") # StrVal(ValidDate)
                            => row.date_utc = PyNone

\* ------------------------------------------------------------ C17
HasToken(subject) ==
    \E i \in DOMAIN subject : subject[i].kind \in {"counter", "partof"}

\* The total part count a strategy reads from a subject.
TotalBy(strategy, subject) ==
    IF strategy = "leftmost" THEN extract_nm_leftmost(subject).m
    ELSE extract_nm_rightmost(subject).m

\* (normalized base subject, total part count, fromAddress)
PartGroupKey(strategy, r) ==
    <<normalize_subject_base(r.subject), TotalBy(strategy, r.subject), r.from_addr>>

\* The groups of a grouping that hold row r.
GroupsOf(grouping, r) ==
    {i \in DOMAIN grouping.groups : r \in SeqToSet(grouping.groups[i].parts)}

Grouped(strategy, grouping) ==
    \A i \in DOMAIN db_rows :
        LET r == db_rows[i]
        IN  /\ ~HasToken(r.subject) =>
                  (r \in SeqToSet(grouping.singles) /\ GroupsOf(grouping, r) = {})
            /\ HasToken(r.subject) =>
                  /\ r \notin SeqToSet(grouping.singles)
                  /\ Cardinality(GroupsOf(grouping, r)) = 1
                  /\ \A j \in DOMAIN db_rows :
                        HasToken(db_rows[j].subject) =>
                            (GroupsOf(grouping, r) = GroupsOf(grouping, db_rows[j])
                                <=> PartGroupKey(strategy, r)
                                        = PartGroupKey(strategy, db_rows[j]))

\* C17: under either strategy a row without a part-counter token is a single,
\* a row with one is in exactly one group, and two rows with a token are in the
\* same group if and only if base subject, the strategy's total part count and
\* poster all agree.
C17_GroupedByKey ==
    npc = "grouped" =>
        /\ Grouped("leftmost", candidates.left)
        /\ Grouped("rightmost", candidates.right)

\* Two rows in one group, a third with the same base subject and poster but
\* another total in a group of its own.
C17_Witness ==
    /\ npc = "grouped"
    /\ \E i, j, k \in DOMAIN db_rows :
          /\ i # j
          /\ GroupsOf(candidates.left, db_rows[i]) = GroupsOf(candidates.left, db_rows[j])
          /\ GroupsOf(candidates.left, db_rows[i]) # {}
          /\ GroupsOf(candidates.left, db_rows[k]) # {}
          /\ GroupsOf(candidates.left, db_rows[k]) # GroupsOf(candidates.left, db_rows[i])
          /\ normalize_subject_base(db_rows[k].subject)
                = normalize_subject_base(db_rows[i].subject)
          /\ db_rows[k].from_addr = db_rows[i].from_addr

\* ------------------------------------------------------------ C18
\* (totalGroupedRecordCount, multiPartGroupCount) of a grouping of db_rows.
ScoreOf(grouping) ==
    <<Len(db_rows) - Len(grouping.singles),
      Cardinality({i \in DOMAIN grouping.groups : Len(grouping.groups[i].parts) >= 2})>>

StrictlyGreater(a, b) == a[1] > b[1] \/ (a[1] = b[1] /\ a[2] > b[2])

\* C18: both strategies are run over the whole batch; the rightmost grouping
\* is returned exactly when its score is lexicographically strictly greater,
\* otherwise (also on a tie) the leftmost; groups and singles returned are
\* those of that one strategy.
C18_StrategySelection ==
    npc \in {"selected", "built"} =>
        /\ candidates.left = group_with_picker(db_rows, "leftmost")
        /\ candidates.right = group_with_picker(db_rows, "rightmost")
        /\ selected.strategy = "rightmost"
              <=> StrictlyGreater(ScoreOf(candidates.right), ScoreOf(candidates.left))
        /\ selected.strategy = "rightmost" =>
              (selected.groups = candidates.right.groups
                  /\ selected.singles = candidates.right.singles)
        /\ selected.strategy # "rightmost" =>
              /\ selected.strategy = "leftmost"
              /\ selected.groups = candidates.left.groups
              /\ selected.singles = candidates.left.singles

\* The rightmost grouping was returned: it has the same number of grouped
\* rows as the leftmost one and more groups of several parts.
C18_Witness ==
    /\ npc = "selected"
    /\ selected.strategy = "rightmost"
    /\ candidates.left.groups # candidates.right.groups
    /\ ScoreOf(candidates.right)[1] = ScoreOf(candidates.left)[1]
    /\ ScoreOf(candidates.right)[2] > ScoreOf(candidates.left)[2]
    /\ selected.groups = candidates.right.groups

\* ------------------------------------------------------------ C19
\* The selected group a file entry was built from.
GroupOfEntry(f) ==
    selected.groups[CHOOSE i \in DOMAIN selected.groups : selected.groups[i].key = f.key]

\* A member's true part number: the n of its rightmost token.
TruePart(r) == extract_nm_rightmost(r.subject).n

Ascending(numbers) ==
    \A i \in 1..(Len(numbers) - 1) : numbers[i] <= numbers[i + 1]

SegmentNumbers(f) == [i \in DOMAIN f.segments |-> f.segments[i].number]

\* C19: in every file entry the segments are in ascending order of part
\* number; there is one segment per member of the group, carrying that
\* member's message id and its part number; and when the members' part
\* numbers are 1..m, each once, the segment numbers read 1, 2, ..., m.
C19_SegmentsByPartNumber ==
    npc = "built" =>
        \A e \in DOMAIN manifest :
            LET f == manifest[e]
                parts == GroupOfEntry(f).parts
            IN  /\ Ascending(SegmentNumbers(f))
                /\ Len(f.segments) = Len(parts)
                /\ \A p \in DOMAIN parts :
                      Cardinality({i \in DOMAIN f.segments :
                          /\ f.segments[i].text = message_id_text(parts[p].message_id)
                          /\ f.segments[i].number = TruePart(parts[p])}) = 1
                /\ (Len(parts) = f.key.m
                        /\ {TruePart(parts[p]) : p \in DOMAIN parts} = 1..f.key.m)
                      => SegmentNumbers(f) = [i \in 1..f.key.m |-> i]

\* A file entry of a complete set whose part 2 was stored before its part 1:
\* the segments read 1, 2 while the members' article numbers descend.
C19_Witness ==
    /\ npc = "built"
    /\ \E e \in DOMAIN manifest :
          LET parts == GroupOfEntry(manifest[e]).parts
          IN  /\ Len(parts) = 2
              /\ TruePart(parts[1]) = 2
              /\ TruePart(parts[2]) = 1
              /\ parts[1].artnum < parts[2].artnum
              /\ SegmentNumbers(manifest[e]) = <<1, 2>>
              /\ manifest[e].segments[1].text = message_id_text(parts[2].message_id)

\* ------------------------------------------------------------ C20
\* The part numbers observed in a group.
Observed(group) == {TruePart(group.parts[p]) : p \in DOMAIN group.parts}

Incomplete(group) == (1..group.key.m) \ Observed(group) # {}

EntriesOf(group) == {e \in DOMAIN manifest : manifest[e].key = group.key}

EmittedWhole(group) ==
    /\ Cardinality(EntriesOf(group)) = 1
    /\ \A e \in EntriesOf(group) :
          /\ Len(manifest[e].segments) = Len(group.parts)
          /\ {manifest[e].segments[i].text : i \in DOMAIN manifest[e].segments}
                = {message_id_text(group.parts[p].message_id) : p \in DOMAIN group.parts}

\* C20 as stated: an incomplete group has no file entry when
\* require_complete_sets is set, and its file entry with all its members when
\* it is not.
C20_IncompleteDroppedOrWhole ==
    npc = "built" =>
        \A g \in DOMAIN selected.groups :
            Incomplete(selected.groups[g]) =>
                IF require_complete_sets
                THEN EntriesOf(selected.groups[g]) = {}
                ELSE EmittedWhole(selected.groups[g])

\* The base subject ends in .exe, whatever the case.
Executable(group) ==
    LET base == group.key.base
    IN  base # <<>> /\ base[Len(base)].ext \in {".exe", ".EXE"}

\* C20 amended: an incomplete group has no file entry when
\* require_complete_sets is set; when it is not set, it has its file entry
\* with all its members unless its base subject ends in .exe, in which case
\* it has none.
C20_IncompleteFiltering ==
    npc = "built" =>
        \A g \in DOMAIN selected.groups :
            Incomplete(selected.groups[g]) =>
                IF require_complete_sets \/ Executable(selected.groups[g])
                THEN EntriesOf(selected.groups[g]) = {}
                ELSE EmittedWhole(selected.groups[g])

\* With require_complete_sets set, a complete set was emitted and an
\* incomplete one of the same base subject and poster was dropped.
C20_Witness ==
    /\ npc = "built"
    /\ require_complete_sets
    /\ manifest # <<>>
    /\ \E g \in DOMAIN selected.groups :
          /\ Incomplete(selected.groups[g])
          /\ ~Executable(selected.groups[g])
          /\ EntriesOf(selected.groups[g]) = {}
          /\ selected.groups[g].key.base = manifest[1].key.base

\* ------------------------------------------------------------ C21
\* The file entries whose subject is the group's base subject and whose
\* poster is the group's.
EntriesNamed(group) ==
    {e \in DOMAIN manifest :
        manifest[e].subject = group.key.base /\ manifest[e].poster = group.key.poster}

\* C21: a group whose base subject ends in .exe, whatever the case, has no
\* file entry in the manifest, complete or not, require_complete_sets set or
\* not; no file entry carries such a subject.
C21_ExecutableNeverEmitted ==
    npc = "built" =>
        /\ \A g \in DOMAIN selected.groups :
              Executable(selected.groups[g]) =>
                  (EntriesOf(selected.groups[g]) = {}
                      /\ EntriesNamed(selected.groups[g]) = {})
        /\ \A e \in DOMAIN manifest :
              LET base == manifest[e].subject
              IN  base # <<>> => base[Len(base)].ext \notin {".exe", ".EXE"}

\* require_complete_sets is not set, a complete set Foo.EXE (1/2), (2/2) was
\* selected and has no file entry, while another group has one.
C21_Witness ==
    /\ npc = "built"
    /\ ~require_complete_sets
    /\ manifest # <<>>
    /\ \E g \in DOMAIN selected.groups :
          /\ Executable(selected.groups[g])
          /\ ~Incomplete(selected.groups[g])
          /\ Len(selected.groups[g].parts) = selected.groups[g].key.m
          /\ EntriesOf(selected.groups[g]) = {}

\* ------------------------------------------------------------ C22
\* The table holds at most one row per message_id, an absent one included.
OnePerMessageId ==
    \A i, j \in DOMAIN articles :
        articles[i].message_id = articles[j].message_id => i = j

\* C22: after any sequence of upsert_headers calls the table holds at most
\* one row per message_id, and applying the last call once more leaves the
\* table as it is.
C22_UpsertIdempotent ==
    dpc = "ready" =>
        /\ OnePerMessageId
        /\ upsert_headers(articles, applied.group, applied.rows) = articles

\* The same for the rows that carry a message_id.
UpsertIdempotentOnKeys ==
    dpc = "ready" =>
        /\ \A i, j \in DOMAIN articles :
              (articles[i].message_id # PyNone
                  /\ articles[i].message_id = articles[j].message_id) => i = j
        /\ (\A k \in DOMAIN applied.rows : applied.rows[k].message_id # PyNone)
              => upsert_headers(articles, applied.group, applied.rows) = articles

\* ------------------------------------------------------------ C23
\* The probe of the iteration about to run returns no timestamp.
ProbeMisses ==
    bs.pc = "loop" /\ bs.low <= bs.high /\ ~get_article_date(bs.rem, Mid).found

\* C23: an iteration whose probe returns no timestamp leaves result as it
\* was and goes on with the loop; the oldest-bound search (find_lower) then
\* discards [mid, high], the newest-bound search discards [low, mid],
\* whatever the probes before did.
C23_MissNarrowsOneWay ==
    [][ProbeMisses =>
          /\ bs'.result = bs.result
          /\ bs'.pc = "loop"
          /\ bs'.probes = Append(bs.probes, Mid)
          /\ IF bs.find_lower
             THEN bs'.low = bs.low /\ bs'.high = Mid - 1
             ELSE bs'.low = Mid + 1 /\ bs'.high = bs.high]_vars

\* An oldest-bound search whose first probe was dated and old enough, so that
\* low went up, and whose second probe missed: result is still the first
\* probe and high came down below the missed number.
C23_Witness ==
    /\ bs.pc = "loop"
    /\ bs.find_lower
    /\ Len(bs.probes) = 2
    /\ bs.probes[1] \notin bs.rem.miss
    /\ bs.rem.age[bs.probes[1]] >= bs.target_days
    /\ bs.probes[2] \in bs.rem.miss
    /\ bs.result = bs.probes[1]
    /\ bs.low = bs.probes[1] + 1
    /\ bs.high = bs.probes[2] - 1

\* ------------------------------------------------------------ C24
\* How many segments of a file entry carry the number n.
SegmentsNumbered(f, n) ==
    Cardinality({i \in DOMAIN f.segments : f.segments[i].number = n})

\* How many members' rightmost token reads part n.
MembersNumbered(parts, n) ==
    Cardinality({p \in DOMAIN parts : extract_nm_rightmost(parts[p].subject).n = n})

\* The part numbers any token of the batch reads.
PartNumbersRead ==
    UNION {{db_rows[i].subject[k].n : k \in DOMAIN db_rows[i].subject} :
              i \in DOMAIN db_rows}

\* C24: in every file entry the segment numbers are the n of the members'
\* rightmost tokens, whichever strategy was selected, while the group's total
\* m is the one the selected strategy reads from each member's subject.
C24_PartNumberReparsed ==
    npc = "built" =>
        \A e \in DOMAIN manifest :
            LET f == manifest[e]
                parts == GroupOfEntry(f).parts
            IN  /\ \A p \in DOMAIN parts :
                      f.key.m = Pick(selected.strategy, parts[p].subject).m
                /\ \A n \in PartNumbersRead \cup {f.segments[i].number : i \in DOMAIN f.segments} :
                      SegmentsNumbered(f, n) = MembersNumbered(parts, n)

\* The leftmost grouping was selected and a file entry was built from a
\* member whose leftmost token reads (2/3) and whose rightmost reads (1/2):
\* the group's total is 3 and the segment's number is 1.
C24_Witness ==
    /\ npc = "built"
    /\ selected.strategy = "leftmost"
    /\ \E e \in DOMAIN manifest :
          LET parts == GroupOfEntry(manifest[e]).parts
          IN  /\ Len(parts) = 1
              /\ extract_nm_leftmost(parts[1].subject).n
                    # extract_nm_rightmost(parts[1].subject).n
              /\ manifest[e].key.m = extract_nm_leftmost(parts[1].subject).m
              /\ manifest[e].key.m # extract_nm_rightmost(parts[1].subject).m
              /\ manifest[e].segments[1].number
                    = extract_nm_rightmost(parts[1].subject).n

\* ------------------------------------------------------------ C25
\* How often row r occurs in a sequence of rows.
Occurrences(rows, r) == Cardinality({i \in DOMAIN rows : rows[i] = r})

\* How often row r occurs in the output of a grouping: in the member lists
\* of all its groups and in its singles.
RECURSIVE OccurrencesInGroups(_, _)
OccurrencesInGroups(groups, r) ==
    IF groups = <<>> THEN 0
    ELSE Occurrences(Head(groups).parts, r) + OccurrencesInGroups(Tail(groups), r)

Partitions(grouping) ==
    /\ \A i \in DOMAIN db_rows :
          /\ OccurrencesInGroups(grouping.groups, db_rows[i])
                + Occurrences(grouping.singles, db_rows[i]) = 1
          /\ Cardinality(GroupsOf(grouping, db_rows[i])) <= 1
    /\ SumLen(grouping.groups) + Len(grouping.singles) = Len(db_rows)
    /\ \A g \in DOMAIN grouping.groups : grouping.groups[g].parts # <<>>

\* C25: each row of the batch appears exactly once in what group_rows_auto
\* returns, in the members of one group or in singles, so that the group sizes
\* and the number of singles add up to the number of rows; the same holds of
\* both candidate groupings.
C25_GroupingPartitions ==
    /\ npc \in {"grouped", "selected", "built"} =>
          (Partitions(candidates.left) /\ Partitions(candidates.right))
    /\ npc \in {"selected", "built"} =>
          Partitions([groups |-> selected.groups, singles |-> selected.singles])

\* A batch of three rows returned as one group of two members and one single.
C25_Witness ==
    /\ npc = "selected"
    /\ Len(db_rows) = 3
    /\ Len(selected.singles) = 1
    /\ Len(selected.groups) = 1
    /\ Len(selected.groups[1].parts) = 2

\* ------------------------------------------------------------ C26
\* C26 as stated: with require_complete_sets set, every file entry of a group
\* with total m has exactly m segments, numbered 1, ..., m, each number once.
C26_ExactlyOneToM ==
    (npc = "built" /\ require_complete_sets) =>
        \A e \in DOMAIN manifest :
            SegmentNumbers(manifest[e]) = [i \in 1..manifest[e].key.m |-> i]

\* C26 amended: with require_complete_sets set, every file entry of a group
\* with total m has one segment per member of the group, at least m of them,
\* and every number 1..m is the number of at least one segment; a reposted
\* part gives a second segment with the same number.
C26_EveryPartPresent ==
    (npc = "built" /\ require_complete_sets) =>
        \A e \in DOMAIN manifest :
            LET f == manifest[e]
            IN  /\ Len(f.segments) = Len(GroupOfEntry(f).parts)
                /\ Len(f.segments) >= f.key.m
                /\ \A n \in 1..f.key.m : SegmentsNumbered(f, n) >= 1

\* With require_complete_sets set, the file entry of Foo with total 2 built
\* from part 1, part 1 posted again and part 2: three segments numbered
\* 1, 1, 2.
C26_Witness ==
    /\ npc = "built"
    /\ require_complete_sets
    /\ \E e \in DOMAIN manifest :
          /\ manifest[e].key.m = 2
          /\ SegmentNumbers(manifest[e]) = <<1, 1, 2>>
          /\ manifest[e].segments[1].text # manifest[e].segments[2].text

\* ------------------------------------------------------------ C27
\* The age-window search returned a range over a remote group whose ages
\* never increase with the article number and whose probes were all answered.
ResolvedOverOrderedAges ==
    /\ rpc = "done"
    /\ resolved.kind = "return"
    /\ resolved.search = "range"
    /\ AgeNonIncreasing(remote)
    /\ remote.miss = {}

InWindow(a) ==
    /\ remote.age[a] >= GetInt(filters.min_days)
    /\ remote.age[a] <= GetInt(filters.max_days)

\* C27: over ages that never increase with the article number and with every
\* probe answered, every article of a range the age-window search returned
\* has an age within [min_days, max_days].
C27_ResolvedWithinWindow ==
    ResolvedOverOrderedAges =>
        \A a \in resolved.range[1]..resolved.range[2] : InWindow(a)

\* The same when some article of the remote group has its age in the window.
ResolvedWithinWindowIfAny ==
    (ResolvedOverOrderedAges /\ \E a \in remote.first..remote.last : InWindow(a)) =>
        \A a \in resolved.range[1]..resolved.range[2] : InWindow(a)

\* ------------------------------------------------------------ C28
\* An iteration of the loop leaves a strictly smaller interval inside the
\* one it found.
IterationShrinks ==
    (bs.pc = "loop" /\ bs.low <= bs.high) =>
        /\ bs'.low >= bs.low
        /\ bs'.high <= bs.high
        /\ bs'.high - bs'.low < bs.high - bs.low
        /\ Mid \notin bs'.low..bs'.high

\* No article number is probed twice, and what the call returns lies in the
\* range it was called with.
ProbedOnceWithinRange ==
    /\ \A i, j \in DOMAIN bs.probes : bs.probes[i] = bs.probes[j] => i = j
    /\ \A i \in DOMAIN bs.probes : bs.probes[i] \in bs.rem.first..bs.rem.last
    /\ bs.pc = "returned" => bs.result \in bs.rem.first..bs.rem.last

\* C28: binary_search_date_boundary returns, for every age function and
\* every pattern of probe misses; each iteration strictly shrinks [low, high],
\* no article number is probed twice, and the number returned lies in the
\* initial [first, last].
C28_SearchTerminates ==
    /\ <>(bs.pc = "returned")
    /\ [][IterationShrinks]_vars
    /\ []ProbedOnceWithinRange

\* An oldest-bound search that returned its initial result, first, after a
\* miss and a dated probe that was too young: no probed article was old
\* enough.
C28_Witness ==
    /\ bs.pc = "returned"
    /\ bs.find_lower
    /\ bs.result = bs.rem.first
    /\ Len(bs.probes) >= 2
    /\ \E i \in DOMAIN bs.probes : bs.probes[i] \in bs.rem.miss
    /\ \E i \in DOMAIN bs.probes :
          bs.probes[i] \notin bs.rem.miss /\ bs.rem.age[bs.probes[i]] < bs.target_days
    /\ \A i \in DOMAIN bs.probes :
          bs.probes[i] \in bs.rem.miss \/ bs.rem.age[bs.probes[i]] < bs.target_days

\* ------------------------------------------------------------ C29
\* The rows a grouping holds in some group.
GroupedRows(grouping) ==
    UNION {SeqToSet(grouping.groups[g].parts) : g \in DOMAIN grouping.groups}

\* A group key without its total part count.
KeyLessTotal(key) == <<key.base, key.poster>>

\* C29: both strategies return the same singles, so both groupings hold the
\* same number of grouped rows and the grouping with more groups of several
\* members decides the choice; every row lies under both strategies in groups
\* of the same base subject and poster.
C29_SameSinglesBothWays ==
    npc \in {"grouped", "selected", "built"} =>
        /\ candidates.left.singles = candidates.right.singles
        /\ score_groups(candidates.left.groups)[1]
              = score_groups(candidates.right.groups)[1]
        /\ RightmostWins(candidates)
              <=> score_groups(candidates.right.groups)[2]
                    > score_groups(candidates.left.groups)[2]
        /\ GroupedRows(candidates.left) = GroupedRows(candidates.right)
        /\ \A r \in GroupedRows(candidates.left) :
              \A gl \in GroupsOf(candidates.left, r), gr \in GroupsOf(candidates.right, r) :
                  KeyLessTotal(candidates.left.groups[gl].key)
                      = KeyLessTotal(candidates.right.groups[gr].key)

\* The two groupings differ: the same rows, one single, but keys with other
\* totals.
C29_Witness ==
    /\ npc = "grouped"
    /\ candidates.left.groups # candidates.right.groups
    /\ candidates.left.singles # <<>>
    /\ \E r \in GroupedRows(candidates.left) :
          \A gl \in GroupsOf(candidates.left, r), gr \in GroupsOf(candidates.right, r) :
              candidates.left.groups[gl].key.m # candidates.right.groups[gr].key.m

\* ------------------------------------------------------------ C30
\* The message identifiers the manifest's segments carry.
ManifestIds ==
    UNION {{manifest[e].segments[i].text : i \in DOMAIN manifest[e].segments} :
              e \in DOMAIN manifest}

IdsOf(rows) == {message_id_text(r.message_id) : r \in rows}

\* C30: the manifest has file entries for groups only: at most one per
\* selected group, each under the key of a group; the message identifiers of
\* its segments are identifiers of grouped rows, none is a single's, and
\* with no group selected the manifest has no file entry.
C30_SinglesNeverEmitted ==
    npc = "built" =>
        /\ Len(manifest) <= Len(selected.groups)
        /\ \A e \in DOMAIN manifest :
              \E g \in DOMAIN selected.groups : selected.groups[g].key = manifest[e].key
        /\ ManifestIds \subseteq
              IdsOf(GroupedRows([groups |-> selected.groups, singles |-> <<>>]))
        /\ ManifestIds \cap IdsOf(SeqToSet(selected.singles)) = {}
        /\ selected.groups = <<>> => manifest = <<>>

\* A batch with a set of two parts and a single: the manifest has the set's
\* file entry and nothing of the single.
C30_Witness ==
    /\ npc = "built"
    /\ Len(selected.singles) = 1
    /\ Len(manifest) = 1
    /\ Len(manifest[1].segments) = 2
    /\ message_id_text(selected.singles[1].message_id) \notin ManifestIds

\* A batch of singles only was built into a manifest without file entry.
OnlySinglesBuilt ==
    /\ npc = "built"
    /\ Len(selected.singles) = Len(db_rows)
    /\ Len(db_rows) >= 2
    /\ manifest = <<>>

====
